---------------------------- MODULE Spec2Model ----------------------------
(***************************************************************************)
(* Layout engine of the Cornell notebook generators.                       *)
(*                                                                         *)
(* Lengths are integers in units of 1/254 point, so that the two scales    *)
(* of the source are exact: one point is 254 units and one millimetre      *)
(* (MM_TO_POINTS = 2.83464566929134 = 72/25.4 points) is 720 units; half a *)
(* point (the dot radius) is 127 units.  Python's true division "/" is     *)
(* written \div; the inputs are chosen so that those divisions are exact.  *)
(* Python's floor division "//" is \div (both round towards minus          *)
(* infinity).                                                              *)
(*                                                                         *)
(* The reportlab canvas is the sequence `canvas' of the primitives issued  *)
(* to it, in order.  Every primitive carries the role of the statement     *)
(* that issued it.  `calls' records the rectangles a renderer hands to the *)
(* renderer it delegates to (a text box, a grid generator, a module) while *)
(* it draws the current page.                                              *)
(***************************************************************************)
EXTENDS Integers, Sequences, FiniteSets, TLC

VARIABLES
    pc,         \* position of the program
    inp,        \* the input of the run: the arguments or the configuration
    canvas,     \* primitives issued to the canvas, in order
    calls,      \* rectangles handed to delegate renderers, in order
    fillColor,  \* the canvas's current fill colour
    page_index, \* NotebookGenerator.generate: index of the page being drawn
    cursor_y,   \* NotebookGenerator.generate: y of the next module's top
    mod_index,  \* NotebookGenerator.generate: modules of the page drawn so far
    newPages,   \* number of showPage() calls
    saved,      \* number of save() calls
    doc,        \* the pages showPage() has finished, in order
    stdout,     \* the messages printed, in order
    exit_code,  \* the status the process ended with; -1 while it runs
    rule_band,  \* single_line module: index of the loop that is ruling lines
    rule_y,     \* single_line module: yy, the y of that loop's next line
    cell_index, \* matrix notebook: cells rendered so far, row by row
    cell_defaults, \* matrix notebook: the cell_defaults dictionary
    y_pos,      \* practice sheet: the top of the next row
    row_count   \* practice sheet: rows drawn so far

vars == <<pc, inp, canvas, calls, fillColor, page_index, cursor_y, mod_index,
          newPages, saved, doc, stdout, exit_code, rule_band, rule_y,
          cell_index, cell_defaults, y_pos, row_count>>

(***************************************************************************)
(* Units and bounds                                                        *)
(***************************************************************************)
\* units per millimetre
MM_TO_POINTS == 720

\* n points in units
Pt(n) == n * 254

\* radius of a grid dot: 0.5 point
DotRadius == 127

\* largest region side of the grid runs, in points
MaxDim == 5

\* largest spacing parameter of the grid runs, in points
MaxSpacing == 3

Max(a, b) == IF a >= b THEN a ELSE b

(***************************************************************************)
(* Primitives                                                              *)
(***************************************************************************)
\* c.line(x1, y1, x2, y2)
Line(role, x1, y1, x2, y2) ==
    [kind |-> "line", role |-> role, x1 |-> x1, y1 |-> y1, x2 |-> x2, y2 |-> y2, r |-> 0]

\* c.rect(x, y, width, height): the corner (x, y) and the opposite corner
Rect(role, x, y, width, height) ==
    [kind |-> "rect", role |-> role, x1 |-> x, y1 |-> y, x2 |-> x + width, y2 |-> y + height, r |-> 0]

\* c.circle(x, y, radius, stroke=0, fill=1)
Circle(role, x, y, radius) ==
    [kind |-> "circle", role |-> role, x1 |-> x, y1 |-> y, x2 |-> x, y2 |-> y, r |-> radius]

\* c.drawString(x, y, text): the anchor and the end of the baseline
String(role, x, y, text_width) ==
    [kind |-> "string", role |-> role, x1 |-> x, y1 |-> y, x2 |-> x + text_width, y2 |-> y, r |-> 0]

\* a rectangle handed to a delegate renderer: draw(x, y, width, height, ...)
Call(fn, role, x, y, width, height) ==
    [fn |-> fn, role |-> role, x |-> x, y |-> y, width |-> width, height |-> height]

\* the extent of a primitive
Left(p)   == (IF p.x1 <= p.x2 THEN p.x1 ELSE p.x2) - p.r
Right(p)  == (IF p.x1 <= p.x2 THEN p.x2 ELSE p.x1) + p.r
Bottom(p) == (IF p.y1 <= p.y2 THEN p.y1 ELSE p.y2) - p.r
Top(p)    == (IF p.y1 <= p.y2 THEN p.y2 ELSE p.y1) + p.r

Range(s) == {s[i] : i \in DOMAIN s}

Sum3(t) == t[1] + t[2] + t[3]

(***************************************************************************)
(* GridRenderer: the five grid generators.  (x, y) is the region's top     *)
(* left corner; the region is [x, x + width] x [y - height, y].            *)
(***************************************************************************)
\* n = int(height // total_row_height); range(n) is empty for n <= 0
GroupCount(height, unit) == Max(0, height \div unit)

FourLineThreeGridMutLastGroup(role, x, y, width, height, row_heights) ==
    LET total_row_height == Sum3(row_heights)
        n == GroupCount(height, total_row_height) + 1
        off == <<0, row_heights[1], row_heights[1] + row_heights[2], total_row_height>>
    IN  [k \in 1..(4 * n) |->
            LET i == (k - 1) \div 4
                j == ((k - 1) % 4) + 1
                base_y == y - i * total_row_height
            IN  Line(role, x, base_y - off[j], x + width, base_y - off[j])]

FourLineThreeGrid(role, x, y, width, height, row_heights) ==
    LET total_row_height == Sum3(row_heights)
        n == GroupCount(height, total_row_height)
        off == <<0, row_heights[1], row_heights[1] + row_heights[2], total_row_height>>
    IN  [k \in 1..(4 * n) |->
            LET i == (k - 1) \div 4
                j == ((k - 1) % 4) + 1
                base_y == y - i * total_row_height
            IN  Line(role, x, base_y - off[j], x + width, base_y - off[j])]

\* rows = int(height // dot_spacing) + 1, cols = int(width // dot_spacing) + 1
DottedGridMutInnerOnly(role, x, y, width, height, dot_spacing) ==
    LET rows == Max(0, height \div dot_spacing)
        cols == Max(0, width \div dot_spacing)
    IN  [k \in 1..(rows * cols) |->
            LET row == (k - 1) \div cols
                col == (k - 1) % cols
            IN  Circle(role, x + col * dot_spacing, y - row * dot_spacing, DotRadius)]

DottedGrid(role, x, y, width, height, dot_spacing) ==
    LET rows == Max(0, (height \div dot_spacing) + 1)
        cols == Max(0, (width \div dot_spacing) + 1)
    IN  [k \in 1..(rows * cols) |->
            LET row == (k - 1) \div cols
                col == (k - 1) % cols
            IN  Circle(role, x + col * dot_spacing, y - row * dot_spacing, DotRadius)]

EnglishGrid(role, x, y, width, height, line_spacing) ==
    LET n == GroupCount(height, line_spacing)
        off == <<0, line_spacing \div 2, line_spacing>>
    IN  [k \in 1..(3 * n) |->
            LET i == (k - 1) \div 3
                j == ((k - 1) % 3) + 1
                base_y == y - i * line_spacing
            IN  Line(role, x, base_y - off[j], x + width, base_y - off[j])]

TianzigeGrid(role, x, y, width, height, cell_size) ==
    LET rows == GroupCount(height, cell_size)
        cols == GroupCount(width, cell_size)
    IN  [k \in 1..(3 * rows * cols) |->
            LET cell == (k - 1) \div 3
                j == ((k - 1) % 3) + 1
                row == cell \div cols
                col == cell % cols
                cell_x == x + col * cell_size
                cell_y == y - row * cell_size
                half == cell_size \div 2
            IN  CASE j = 1 -> Rect(role, cell_x, cell_y - cell_size, cell_size, cell_size)
                  [] j = 2 -> Line(role, cell_x, cell_y - half, cell_x + cell_size, cell_y - half)
                  [] j = 3 -> Line(role, cell_x + half, cell_y - cell_size, cell_x + half, cell_y)]

\* yy = y; while yy > y - height: line; yy -= line_step
RECURSIVE SingleLineFrom(_, _, _, _, _, _)
SingleLineFrom(role, x, yy, width, floor_y, line_step) ==
    IF yy > floor_y
    THEN <<Line(role, x, yy, x + width, yy)>>
         \o SingleLineFrom(role, x, yy - line_step, width, floor_y, line_step)
    ELSE <<>>

SingleLineGridMutBottomEdge(role, x, y, width, height, line_step) ==
    SingleLineFrom(role, x, y, width, y - height - 1, line_step)

SingleLineGrid(role, x, y, width, height, line_step) ==
    SingleLineFrom(role, x, y, width, y - height, line_step)

(***************************************************************************)
(* Grid runs: one generator applied to one region                         *)
(***************************************************************************)
GridStyles == {"four_line_three_grid", "dotted", "english_grid", "tianzige", "single_line"}

\* row heights of a four-line group: the defaults of the two GridRenderer
\* revisions and a smaller group
RowHeightsSet == {<<Pt(3), Pt(3), Pt(3)>>, <<Pt(4), Pt(6), Pt(4)>>, <<Pt(1), Pt(1), Pt(1)>>}

\* the fill colour a caller may have left on the canvas
FillColors == {"black", "lightgrey"}

GridInputs ==
    [style : GridStyles,
     x : {0, Pt(2)},
     y : {Pt(20)},
     width : {Pt(k) : k \in 0..MaxDim} \cup {Pt(2) + 127},
     height : {Pt(k) : k \in 0..MaxDim} \cup {Pt(2) + 127, Pt(9), Pt(14), Pt(-1)},
     spacing : {Pt(k) : k \in 1..MaxSpacing},
     row_heights : RowHeightsSet]

InitGrid ==
    /\ pc = "grid"
    /\ inp \in {g \in GridInputs :
                  \/ g.style = "four_line_three_grid" /\ g.spacing = Pt(1)
                  \/ g.style # "four_line_three_grid" /\ g.row_heights = <<Pt(3), Pt(3), Pt(3)>>}
    /\ canvas = <<>>
    /\ calls = <<>>
    /\ fillColor \in FillColors
    /\ page_index = 0
    /\ cursor_y = 0
    /\ mod_index = 0
    /\ newPages = 0
    /\ saved = 0
    /\ doc = <<>>
    /\ stdout = <<>>
    /\ exit_code = -1
    /\ rule_band = 0
    /\ rule_y = 0
    /\ cell_index = 0
    /\ cell_defaults = <<>>
    /\ y_pos = 0
    /\ row_count = 0

GridReturn(prims) ==
    /\ canvas' = canvas \o prims
    /\ pc' = "grid_done"
    /\ UNCHANGED <<y_pos, row_count, cell_index, cell_defaults, rule_band, rule_y, exit_code, stdout, inp, calls, page_index, cursor_y, mod_index, newPages, saved, doc>>

draw_four_line_three_grid ==
    /\ pc = "grid" /\ inp.style = "four_line_three_grid"
    /\ GridReturn(FourLineThreeGrid("grid", inp.x, inp.y, inp.width, inp.height, inp.row_heights))
    /\ UNCHANGED fillColor

draw_dotted_grid ==
    /\ pc = "grid" /\ inp.style = "dotted"
    /\ GridReturn(DottedGrid("grid", inp.x, inp.y, inp.width, inp.height, inp.spacing))
    /\ fillColor' = "black"

draw_english_grid ==
    /\ pc = "grid" /\ inp.style = "english_grid"
    /\ GridReturn(EnglishGrid("grid", inp.x, inp.y, inp.width, inp.height, inp.spacing))
    /\ UNCHANGED fillColor

draw_tianzige_grid ==
    /\ pc = "grid" /\ inp.style = "tianzige"
    /\ GridReturn(TianzigeGrid("grid", inp.x, inp.y, inp.width, inp.height, inp.spacing))
    /\ UNCHANGED fillColor

draw_single_line_grid ==
    /\ pc = "grid" /\ inp.style = "single_line"
    /\ GridReturn(SingleLineGrid("grid", inp.x, inp.y, inp.width, inp.height, inp.spacing))
    /\ UNCHANGED fillColor

NextGrid ==
    \/ draw_four_line_three_grid
    \/ draw_dotted_grid
    \/ draw_english_grid
    \/ draw_tianzige_grid
    \/ draw_single_line_grid

SpecGrid == InitGrid /\ [][NextGrid]_vars

(***************************************************************************)
(* Configuration dictionaries.  A dictionary is a function from the keys   *)
(* it holds; dict.get(key, default) is Get.                                *)
(***************************************************************************)
Get(config, key, default) == IF key \in DOMAIN config THEN config[key] ELSE default

Has(config, key) == key \in DOMAIN config

\* the dictionary without one key
Without(config, key) == [k \in DOMAIN config \ {key} |-> config[k]]

\* a keyword ratio, num / den
Ratio(num, den) == [num |-> num, den |-> den]

\* width * ratio
Scale(width, ratio) == (width * ratio.num) \div ratio.den

\* a label is modelled by the widths stringWidth measures: a string is one
\* width, a list of strings is the sequence of their widths
Str(text_width) == [list |-> FALSE, ws |-> <<text_width>>]
StrList(text_widths) == [list |-> TRUE, ws |-> text_widths]

\* the result of a renderer: what it issued to the canvas, the rectangles it
\* handed on, and the exception it raised ("" when it returned)
Drawn(prims, handed) == [canvas |-> prims, calls |-> handed, err |-> ""]
Raised(prims, handed, exc) == [canvas |-> prims, calls |-> handed, err |-> exc]

\* one grid call of a module layout: the rectangle handed to the generator
\* and the primitives the generator issues for it
GridCall(style, band, x, y, width, height, config) ==
    LET prims ==
          CASE style = "four_line_three_grid" ->
                 FourLineThreeGrid(band, x, y, width, height,
                     [i \in 1..3 |-> Get(config, "grid_row_heights_mm", <<3, 3, 3>>)[i] * MM_TO_POINTS])
            [] style = "single_line" ->
                 SingleLineGrid(band, x, y, width, height, Get(config, "line_step_mm", 0) * MM_TO_POINTS)
            [] style = "dotted" ->
                 DottedGrid(band, x, y, width, height, Get(config, "grid_dot_spacing_mm", 20) * MM_TO_POINTS)
            [] style = "english_grid" ->
                 EnglishGrid(band, x, y, width, height, Get(config, "grid_line_spacing_mm", 8) * MM_TO_POINTS)
            [] style = "tianzige" ->
                 TianzigeGrid(band, x, y, width, height, Get(config, "grid_cell_size_mm", 30) * MM_TO_POINTS)
    IN  Drawn(prims, <<Call("grid", band, x, y, width, height)>>)

Both(a, b) == Drawn(a.canvas \o b.canvas, a.calls \o b.calls)

\* the rectangle the title band's grid call is given
TitleGridTop(y, theme_h) == y - theme_h

\* _draw_<style>_layout: the grid calls of one module, in the order of the
\* source: notes, keywords, summary, title
GridLayout(style, x, y, width, height, theme_h, summary_h, keyword_w, config) ==
    LET notes == GridCall(style, "grid_notes", x + keyword_w, y - theme_h,
                          width - keyword_w, height - theme_h - summary_h, config)
        keywords == GridCall(style, "grid_keywords", x, y - theme_h,
                             keyword_w, height - theme_h - summary_h, config)
        summary ==
            IF style = "four_line_three_grid"
            THEN Both(GridCall(style, "grid_summary", x, y - (height - summary_h),
                               width, summary_h \div 2, config),
                      GridCall(style, "grid_summary", x, y - (height - (summary_h \div 2)),
                               width, summary_h \div 2, config))
            ELSE GridCall(style, "grid_summary", x, y - (height - summary_h),
                          width, summary_h, config)
        title == GridCall(style, "grid_title", x, TitleGridTop(y, theme_h), width, theme_h, config)
    IN  Both(Both(notes, keywords), Both(summary, title))

\* the dispatch on line_style: if / elif over the five styles, no else branch
StyleLayoutMutDefaultGrid(line_style, x, y, width, height, theme_h, summary_h, keyword_w, config) ==
    GridLayout(IF line_style \in GridStyles THEN line_style ELSE "single_line",
               x, y, width, height, theme_h, summary_h, keyword_w, config)

StyleLayout(line_style, x, y, width, height, theme_h, summary_h, keyword_w, config) ==
    IF line_style \in GridStyles
    THEN GridLayout(line_style, x, y, width, height, theme_h, summary_h, keyword_w, config)
    ELSE Drawn(<<>>, <<>>)

\* the keyword labels: a string once, a list stacked at step increments
KeywordLabels(x, keyword_label_y, step, keyword_label) ==
    [i \in 1..Len(keyword_label.ws) |->
        String("keyword_label", x, keyword_label_y - (i - 1) * step, keyword_label.ws[i])]

\* the keyword/notes divider
KeywordDividerMutFromTop(x, y, height, theme_h, summary_h, keyword_w) ==
    Line("keyword_divider", x + keyword_w, y, x + keyword_w, y - height + summary_h)

KeywordDivider(x, y, height, theme_h, summary_h, keyword_w) ==
    Line("keyword_divider", x + keyword_w, y - theme_h, x + keyword_w, y - height + summary_h)

\* width of the default summary label, two CJK glyphs at 12 points
DefaultSummaryLabel == Str(Pt(24))

\* CornellModuleRenderer.draw
CornellModuleRendererDraw(x, y, width, height, config) ==
    IF ~Has(config, "line_step_mm")
    THEN Raised(<<>>, <<>>, "TypeError")   \* None * MM_TO_POINTS
    ELSE
    LET step == config["line_step_mm"] * MM_TO_POINTS
        theme_h == Get(config, "theme_height_mm", 0) * MM_TO_POINTS
        summary_h == Get(config, "summary_height_mm", 0) * MM_TO_POINTS
        keyword_w == Scale(width, Get(config, "keyword_width_ratio", Ratio(3, 10)))
        line_style == Get(config, "line_style", "single_line")
        label_padding == Pt(Get(config, "label_padding", 0))
        border == IF Get(config, "border_enabled", TRUE)
                  THEN <<Rect("module_border", x, y - height, width, height)>>
                  ELSE <<>>
        title_label ==
            IF theme_h > 0
            THEN <<String("title_label", x + label_padding, y - theme_h + (theme_h \div 4),
                          Get(config, "title_label", Str(0)).ws[1])>>
            ELSE <<>>
        keyword_label ==
            KeywordLabels(x + label_padding, y - theme_h - step + (step \div 4), step,
                          Get(config, "keyword_label", Str(0)))
        summary_label ==
            IF summary_h > 0
            THEN <<String("summary_label", x + label_padding,
                          y - height + summary_h - step + (step \div 4),
                          Get(config, "summary_label", DefaultSummaryLabel).ws[1])>>
            ELSE <<>>
        grid == StyleLayout(line_style, x, y, width, height, theme_h, summary_h, keyword_w, config)
        title_divider ==
            IF theme_h > 0
            THEN <<Line("title_divider", x, y - theme_h, x + width, y - theme_h)>>
            ELSE <<>>
        summary_divider ==
            IF summary_h > 0
            THEN <<Line("summary_divider", x, y - height + summary_h, x + width, y - height + summary_h)>>
            ELSE <<>>
    IN  Drawn(border \o title_label \o keyword_label \o summary_label \o grid.canvas
                \o title_divider \o summary_divider
                \o <<KeywordDivider(x, y, height, theme_h, summary_h, keyword_w)>>,
              grid.calls)

\* theme_y = start; while theme_y < ceil_y: line; theme_y += step
RECURSIVE LinesUp(_, _, _, _, _, _)
LinesUp(role, x1, x2, yy, ceil_y, step) ==
    IF yy < ceil_y
    THEN <<Line(role, x1, yy, x2, yy)>> \o LinesUp(role, x1, x2, yy + step, ceil_y, step)
    ELSE <<>>

\* the title divider of draw_cornell_module
NotebookTitleDivider(x, y, width, theme_h) ==
    <<Line("title_divider", x, y - theme_h, x + width, y - theme_h)>>

\* the summary divider of draw_cornell_module
NotebookSummaryDivider(x, y, width, height, summary_h) ==
    <<Line("summary_divider", x, y - height + summary_h, x + width, y - height + summary_h)>>

\* ComponentRenderer.draw_cornell_module (Notebook_gen.py); its configuration
\* is in points
NotebookDrawCornellModule(x, y, width, height, config) ==
    LET theme_h == Pt(Get(config, "theme_height", 14))
        summary_h == Pt(Get(config, "summary_height", 14))
        keyword_w == Scale(width, Get(config, "keyword_width_ratio", Ratio(3, 10)))
        line_style == Get(config, "line_style", "single_line")
        gx == Pt(Get(config, "grid_offset_x", 2))
        gy == Pt(Get(config, "grid_offset_y", 4))
        summary_mid_y == y - height + (summary_h \div 2)
        frame ==
            <<Rect("module_border", x, y - height, width, height)>>
            \o NotebookTitleDivider(x, y, width, theme_h)
            \o NotebookSummaryDivider(x, y, width, height, summary_h)
            \o <<KeywordDivider(x, y, height, theme_h, summary_h, keyword_w),
                 Line("summary_mid", x, summary_mid_y, x + width, summary_mid_y)>>
        four(band, gx0, gy0, gw, gh) ==
            Drawn(FourLineThreeGrid(band, gx0, gy0, gw, gh,
                      [i \in 1..3 |-> Pt(Get(config, "grid_row_heights", <<4, 6, 4>>)[i])]),
                  <<Call("grid", band, gx0, gy0, gw, gh)>>)
        width_reduction == keyword_w + Pt(Get(config, "grid_width_reduction", 4))
        height_reduction == theme_h + summary_h + Pt(Get(config, "grid_height_reduction", 6))
        step == Pt(Get(config, "line_step", 8))
        grid ==
            CASE line_style = "four_line_three_grid" ->
                   Both(Both(four("grid_notes", x + keyword_w + gx, y - (theme_h + gy),
                                  width - width_reduction, height - height_reduction),
                             four("grid_keywords", x + gx, y - (theme_h + gy),
                                  keyword_w - gx * 2, height - height_reduction)),
                        Both(Both(four("grid_summary", x + gx, y - (height - summary_h + gy),
                                       width - gx * 2, (summary_h \div 2) - gy * 2),
                                  four("grid_summary", x + gx, y - (height - (summary_h \div 2) + gy),
                                       width - gx * 2, (summary_h \div 2) - gy * 2)),
                             four("grid_title", x + gx, y - (theme_h - gy),
                                  width - gx * 2, theme_h - gy * 2)))
              [] line_style = "single_line" ->
                   Drawn(SingleLineFrom("grid_notes", x + keyword_w + gx, y - (theme_h + gy),
                                        (x + width - gx) - (x + keyword_w + gx),
                                        y - height + summary_h + gy, step)
                         \o SingleLineFrom("grid_keywords", x + gx, y - theme_h - gy,
                                           (x + keyword_w - gx) - (x + gx),
                                           y - height + summary_h + gy, step)
                         \o SingleLineFrom("grid_summary", x + gx, y - height + summary_h - gy,
                                           (x + width - gx) - (x + gx), summary_mid_y + gy, step)
                         \o SingleLineFrom("grid_summary", x + gx, summary_mid_y - gy,
                                           (x + width - gx) - (x + gx), y - height + gy, step)
                         \o LinesUp("grid_title", x + gx, x + width - gx,
                                    y - theme_h + gy, y - gy, step),
                         <<>>)
              [] OTHER -> Drawn(<<>>, <<>>)
    IN  Drawn(frame \o grid.canvas, grid.calls)

(***************************************************************************)
(* Module runs: one Cornell module drawn on one rectangle                  *)
(***************************************************************************)
LineStyles == GridStyles \cup {"blank", "hexagons"}

\* theme and summary heights of the module runs
BandHeights == {0, 9, 14}

KeywordRatios == {Ratio(0, 1), Ratio(3, 10), Ratio(1, 2), Ratio(1, 1)}

\* module heights of the module runs, in millimetres
ModuleHeightsMm == {0, 27, 90}

CornellModuleConfigs ==
    [line_step_mm : {9},
     theme_height_mm : BandHeights,
     summary_height_mm : BandHeights,
     keyword_width_ratio : KeywordRatios,
     line_style : LineStyles,
     title_label : {Str(Pt(30))},
     keyword_label : {Str(Pt(40)), StrList(<<Pt(40), Pt(20)>>)},
     summary_label : {Str(Pt(30))},
     border_enabled : BOOLEAN]

\* keys a module run may leave out
ModuleDrops == {"none", "line_step_mm", "summary_label"}

NotebookModuleConfigs ==
    [theme_height : BandHeights,
     summary_height : BandHeights,
     keyword_width_ratio : {Ratio(3, 10), Ratio(1, 2)},
     line_style : LineStyles]

NotebookModuleDrops == {"none", "theme_height", "summary_height"}

ModuleInputs ==
    {[path |-> "cornell", x |-> Pt(20), y |-> Pt(700), width |-> 60 * MM_TO_POINTS,
      height |-> h * MM_TO_POINTS,
      config |-> IF d = "none" THEN c ELSE Without(c, d)] :
        h \in ModuleHeightsMm, c \in CornellModuleConfigs, d \in ModuleDrops}
    \cup
    {[path |-> "notebook", x |-> Pt(20), y |-> Pt(700), width |-> 60 * MM_TO_POINTS,
      height |-> h * MM_TO_POINTS,
      config |-> IF d = "none" THEN c ELSE Without(c, d)] :
        h \in ModuleHeightsMm, c \in NotebookModuleConfigs, d \in NotebookModuleDrops}

InitModule ==
    /\ pc = "module"
    /\ inp \in ModuleInputs
    /\ canvas = <<>>
    /\ calls = <<>>
    /\ fillColor = "black"
    /\ page_index = 0
    /\ cursor_y = 0
    /\ mod_index = 0
    /\ newPages = 0
    /\ saved = 0
    /\ doc = <<>>
    /\ stdout = <<>>
    /\ exit_code = -1
    /\ rule_band = 0
    /\ rule_y = 0
    /\ cell_index = 0
    /\ cell_defaults = <<>>
    /\ y_pos = 0
    /\ row_count = 0

ModuleReturn(res) ==
    /\ canvas' = canvas \o res.canvas
    /\ calls' = calls \o res.calls
    /\ pc' = IF res.err = "" THEN "module_done" ELSE res.err
    /\ UNCHANGED <<y_pos, row_count, cell_index, cell_defaults, rule_band, rule_y, exit_code, stdout, inp, fillColor, page_index, cursor_y, mod_index, newPages, saved, doc>>

CornellModuleRenderer_draw ==
    /\ pc = "module" /\ inp.path = "cornell"
    /\ ModuleReturn(CornellModuleRendererDraw(inp.x, inp.y, inp.width, inp.height, inp.config))

draw_cornell_module ==
    /\ pc = "module" /\ inp.path = "notebook"
    /\ ModuleReturn(NotebookDrawCornellModule(inp.x, inp.y, inp.width, inp.height, inp.config))

NextModule ==
    \/ CornellModuleRenderer_draw
    \/ draw_cornell_module

SpecModule == InitModule /\ [][NextModule]_vars

(***************************************************************************)
(* Text box, header, quote box and footer renderers (Cornell_gen_1102.py). *)
(* Paddings, margins and spacings of these configurations are in points.   *)
(***************************************************************************)
\* a result followed by another; the second is not run when the first raised
Then(a, b) ==
    IF a.err # "" THEN a
    ELSE [canvas |-> a.canvas \o b.canvas, calls |-> a.calls \o b.calls, err |-> b.err]

\* text_height = 12
TextHeight == Pt(12)

\* text_x = x + (width / 2) - (text_width / 2)
CenterAnchorMutPadded(x, width, text_width, text_padding) ==
    x + text_padding + (width \div 2) - (text_width \div 2)

CenterAnchor(x, width, text_width, text_padding) == x + (width \div 2) - (text_width \div 2)

\* TextBoxRenderer.draw; role names the caller's box
TextBoxRendererDraw(role, x, y, width, height, config) ==
    LET border == IF Get(config, "border_enabled", TRUE)
                  THEN <<Rect(role, x, y, width, height)>>
                  ELSE <<>>
        text_width == Get(config, "text", Str(0)).ws[1]
        alignment == Get(config, "alignment", "left")
        vertical_alignment == Get(config, "vertical_alignment", "top")
        text_padding == Pt(Get(config, "text_padding", 0))
        vertical_padding == Pt(Get(config, "vertical_padding", 0))
        text_y == CASE vertical_alignment = "top" -> y + height - vertical_padding - TextHeight
                    [] vertical_alignment = "middle" -> y + (height \div 2) - (TextHeight \div 2)
                    [] OTHER -> y + vertical_padding
        text_x == CASE alignment = "left" -> x + text_padding
                    [] alignment = "center" -> CenterAnchor(x, width, text_width, text_padding)
                    [] OTHER -> x + width - text_padding - text_width
    IN  Drawn(border \o <<String(role \o "_text", text_x, text_y, text_width)>>,
              <<Call("text_box", role, x, y, width, height)>>)

\* the header's border rectangle: c.rect(x, y, width, height)
HeaderBorder(x, y, width, height) == Rect("header_border", x, y, width, height)

\* field_width = max(uniform_field_width, text_width + 2 * text_padding)
FieldWidthMutUniform(uniform_field_width, text_width, text_padding) == uniform_field_width

FieldWidth(uniform_field_width, text_width, text_padding) ==
    Max(uniform_field_width, text_width + 2 * text_padding)

\* the loop over the header's fields, from field i on
RECURSIVE HeaderFields(_, _, _, _, _, _)
HeaderFields(fields, i, cursor_x, y, uniform_field_width, config) ==
    IF i > Len(fields) THEN Drawn(<<>>, <<>>)
    ELSE
    LET field == fields[i]
        text_padding == Get(field, "text_padding", 2)
        vertical_padding == Get(field, "vertical_padding", 3)
    IN  IF ~Has(field, "label") THEN Raised(<<>>, <<>>, "KeyError")
        ELSE
        LET text_width == field["label"].ws[1]
            field_width == FieldWidth(uniform_field_width, text_width, Pt(text_padding))
            field_height == Max(Pt(20), TextHeight + 2 * Pt(vertical_padding))
            box_y == y - field_height + Pt(Get(config, "field_vertical_padding", 0))
            field_config == [text |-> field["label"],
                             text_padding |-> text_padding,
                             vertical_padding |-> vertical_padding,
                             border_enabled |-> Get(field, "border_enabled", TRUE),
                             alignment |-> Get(field, "text_alignment", "left"),
                             vertical_alignment |-> Get(field, "vertical_alignment", "top")]
            field_spacing == Pt(Get(config, "field_spacing", 0))
        IN  Then(TextBoxRendererDraw("header_field", cursor_x, box_y, field_width, field_height,
                                     field_config),
                 HeaderFields(fields, i + 1, cursor_x + field_width + field_spacing, y,
                              uniform_field_width, config))

\* HeaderRenderer.draw
HeaderRendererDraw(x, y, width, height, config) ==
    LET field_margin == Pt(Get(config, "field_margin", 0))
        fields == Get(config, "fields", <<>>)
        border == IF Get(config, "border_enabled", TRUE)
                  THEN <<HeaderBorder(x, y, width, height)>>
                  ELSE <<>>
        field_spacing == Pt(Get(config, "field_spacing", 0))
        total_field_width == width - 2 * field_margin - (Len(fields) - 1) * field_spacing
        uniform_field_width == IF fields # <<>> THEN total_field_width \div Len(fields) ELSE 0
    IN  Then(Drawn(border, <<>>),
             HeaderFields(fields, 1, x + field_margin, y, uniform_field_width, config))

\* quote_box_height = max(height, quote_text_height + 2 * quote_vertical_padding)
QuoteBoxHeightMutConfigured(height, quote_vertical_padding) == height

QuoteBoxHeight(height, quote_vertical_padding) ==
    Max(height, TextHeight + 2 * quote_vertical_padding)

\* QuoteBoxRenderer.draw
QuoteBoxRendererDraw(x, y, width, height, config) ==
    IF ~Has(config, "quote_box") \/ DOMAIN Get(config, "quote_box", <<>>) = {}
    THEN Drawn(<<>>, <<>>)
    ELSE
    LET quote == config["quote_box"]
        quote_label_padding == Get(config, "quote_label_padding", 0)
        quote_vertical_padding == Get(quote, "vertical_padding", 0)
    IN  IF ~Has(quote, "label") THEN Raised(<<>>, <<>>, "KeyError")
        ELSE
        LET quote_box_height == QuoteBoxHeight(height, Pt(quote_vertical_padding))
            border == IF Get(config, "border_enabled", TRUE)
                      THEN <<Rect("quote_border", x, y, width, quote_box_height)>>
                      ELSE <<>>
            quote_config == [text |-> quote["label"],
                             text_padding |-> quote_label_padding,
                             vertical_padding |-> quote_vertical_padding,
                             alignment |-> "left",
                             vertical_alignment |-> "top"]
        IN  Then(Drawn(border, <<>>),
                 TextBoxRendererDraw("quote_box", x, y, width, quote_box_height, quote_config))

\* box_w = max(box_width, text_width + 2 * text_padding)
ReviewBoxWidthMutEvenShare(box_width, text_width, text_padding) == box_width

ReviewBoxWidth(box_width, text_width, text_padding) ==
    Max(box_width, text_width + 2 * text_padding)

\* cursor_x += box_w
FooterNextCursorMutGap(cursor_x, box_w) == cursor_x + box_w + Pt(1)

FooterNextCursor(cursor_x, box_w) == cursor_x + box_w

\* the loop over the footer's review boxes, from box i on
RECURSIVE FooterBoxes(_, _, _, _, _, _, _)
FooterBoxes(review_boxes, i, cursor_x, y, box_width, height, config) ==
    IF i > Len(review_boxes) THEN Drawn(<<>>, <<>>)
    ELSE
    LET label == review_boxes[i]
        box_height == height
        box_top_margin == Pt(Get(config, "review_box_top_margin", 0))
        text_padding == Get(config, "review_box_text_padding", 0)
        box_w == ReviewBoxWidth(box_width, label.ws[1], Pt(text_padding))
        box_y == y + box_top_margin
        box_config == [text |-> label,
                       text_padding |-> text_padding,
                       vertical_padding |-> text_padding,
                       border_enabled |-> FALSE,
                       alignment |-> Get(config, "review_text_alignment", "center"),
                       vertical_alignment |-> "middle"]
    IN  Then(TextBoxRendererDraw("review_box", cursor_x, box_y, box_w, box_height, box_config),
             FooterBoxes(review_boxes, i + 1, FooterNextCursor(cursor_x, box_w), y, box_width,
                         height, config))

\* FooterRenderer.draw
FooterRendererDraw(x, y, width, height, config) ==
    LET border == IF Get(config, "border_enabled", TRUE)
                  THEN <<Rect("footer_border", x, y, width, height)>>
                  ELSE <<>>
        review_boxes == Get(config, "review_boxes", <<>>)
    IN  IF Len(review_boxes) > 0
        THEN Then(Drawn(border, <<>>),
                  FooterBoxes(review_boxes, 1, x, y, width \div Len(review_boxes), height, config))
        ELSE Drawn(border, <<>>)

(***************************************************************************)
(* NotebookGenerator.generate (Cornell_gen_1102.py)                        *)
(***************************************************************************)
\* most modules of a page in the document runs
MaxModules == 2

\* most entries of the pages list in the document runs
MaxPages == 2

\* PAPER_SIZES, in points
PAPER_SIZES ==
    [A0 |-> <<2384, 3370>>, A1 |-> <<1684, 2384>>, A2 |-> <<1191, 1684>>,
     A3 |-> <<842, 1191>>, A4 |-> <<595, 842>>, A5 |-> <<420, 595>>,
     B0 |-> <<2835, 4008>>, B1 |-> <<2004, 2835>>, B2 |-> <<1417, 2004>>,
     B3 |-> <<1001, 1417>>, B4 |-> <<709, 1001>>, B5 |-> <<499, 709>>]

\* reportlab's A4: 210 mm x 297 mm
A4 == <<210 * MM_TO_POINTS, 297 * MM_TO_POINTS>>

\* PAPER_SIZES.get(page_size_name, A4), then landscape() or portrait()
PageSizeMutNoSwap(format) ==
    LET page_size_name == Get(format, "size", "A4")
    IN  IF page_size_name \in DOMAIN PAPER_SIZES
        THEN <<Pt(PAPER_SIZES[page_size_name][1]), Pt(PAPER_SIZES[page_size_name][2])>>
        ELSE A4

PageSize(format) ==
    LET page_size_name == Get(format, "size", "A4")
        page_size == IF page_size_name \in DOMAIN PAPER_SIZES
                     THEN <<Pt(PAPER_SIZES[page_size_name][1]), Pt(PAPER_SIZES[page_size_name][2])>>
                     ELSE A4
        a == page_size[1]
        b == page_size[2]
    IN  IF Get(format, "orientation", "portrait") = "landscape"
        THEN (IF a < b THEN <<b, a>> ELSE <<a, b>>)
        ELSE (IF a >= b THEN <<b, a>> ELSE <<a, b>>)

\* pages = cfg.get("pages", []); if not pages: pages = [cfg]
PagesMutFirstOnly(cfg) == IF Get(cfg, "pages", <<>>) = <<>> THEN <<cfg>> ELSE <<cfg["pages"][1]>>

Pages(cfg) == IF Get(cfg, "pages", <<>>) = <<>> THEN <<cfg>> ELSE cfg["pages"]

\* module_h = (usable_h // (step * len(modules))) * step
ModuleHeightMutEqualShare(usable_h, step, n) == usable_h \div n

ModuleHeight(usable_h, step, n) == (usable_h \div (step * n)) * step

\* the y the header is drawn at: H - top_margin
HeaderY(H, top_margin) == H - top_margin

\* the geometry generate() computes for one page
Layout(page_cfg) ==
    LET format == Get(page_cfg, "page_format", <<>>)
        size == PageSize(format)
        W == size[1]
        H == size[2]
        header_cfg == Get(page_cfg, "header", <<>>)
        footer_cfg == Get(page_cfg, "footer", <<>>)
        modules == Get(page_cfg, "modules", <<>>)
        quote_cfg == Get(page_cfg, "quote", <<>>)
        header_h == Get(header_cfg, "height_mm", 0) * MM_TO_POINTS
        footer_h == Get(footer_cfg, "height_mm", 0) * MM_TO_POINTS
        quote_h == Get(quote_cfg, "height_mm", 0) * MM_TO_POINTS
        step == Get(format, "line_step_mm", 9) * MM_TO_POINTS
        base_margin == Pt(Get(format, "base_margin", 0))
        left_margin == Pt(Get(format, "left_binding_margin", 0)) + base_margin
        right_margin == Pt(Get(format, "right_binding_margin", 0)) + base_margin
        top_margin == Pt(Get(format, "top_binding_margin", 0)) + base_margin
        bottom_margin == Pt(Get(format, "bottom_binding_margin", 0)) + base_margin
    IN  [W |-> W, H |-> H,
         header_cfg |-> header_cfg, footer_cfg |-> footer_cfg,
         modules |-> modules, quote_cfg |-> quote_cfg,
         header_h |-> header_h, footer_h |-> footer_h, quote_h |-> quote_h, step |-> step,
         left_margin |-> left_margin, right_margin |-> right_margin,
         top_margin |-> top_margin, bottom_margin |-> bottom_margin,
         usable_h |-> H - top_margin - bottom_margin - header_h - quote_h - footer_h]

\* the page being drawn
Page == Layout(Pages(inp)[page_index + 1])

\* a configuration file that is not JSON
Malformed == [malformed |-> TRUE]

\* where generate() goes after a renderer's result
RenderedMutContinue(res, next_pc) ==
    /\ canvas' = canvas \o res.canvas
    /\ calls' = calls \o res.calls
    /\ pc' = next_pc

\* the canvas after a renderer ran, and where the program goes: an exception
\* is not caught
Rendered(res, next_pc) ==
    /\ canvas' = canvas \o res.canvas
    /\ calls' = calls \o res.calls
    /\ pc' = IF res.err = "" THEN next_pc ELSE res.err

\* with open(...): json.load; c = canvas.Canvas(output)
generate_open ==
    /\ pc = "start"
    /\ pc' = IF Has(inp, "malformed") THEN "JSONDecodeError" ELSE "header"
    /\ page_index' = 0
    /\ UNCHANGED <<y_pos, row_count, cell_index, cell_defaults, rule_band, rule_y, exit_code, stdout, inp, canvas, calls, fillColor, cursor_y, mod_index, newPages, saved, doc>>

\* header_renderer.draw(left_margin, H - top_margin, W - left_margin - right_margin, header_h, header_cfg)
draw_header ==
    /\ pc = "header"
    /\ LET L == Page
       IN  Rendered(HeaderRendererDraw(L.left_margin, HeaderY(L.H, L.top_margin),
                                       L.W - L.left_margin - L.right_margin, L.header_h,
                                       L.header_cfg),
                    "quote")
    /\ UNCHANGED <<y_pos, row_count, cell_index, cell_defaults, rule_band, rule_y, exit_code, stdout, inp, fillColor, page_index, cursor_y, mod_index, newPages, saved, doc>>

\* y = H - top_margin - header_h - quote_h: where the first module of a page
\* starts; cursor_y is the y left by the modules drawn before
ModulesTopMutCarried(H, top_margin, header_h, quote_h, y) ==
    IF y = 0 THEN H - top_margin - header_h - quote_h ELSE y

ModulesTop(H, top_margin, header_h, quote_h, y) == H - top_margin - header_h - quote_h

\* if quote_cfg: quote_renderer.draw(left_margin, quote_y, ..., quote_h, quote_cfg);
\* then y = H - top_margin - header_h - quote_h for the modules
draw_quote ==
    /\ pc = "quote"
    /\ LET L == Page
           quote_y == L.H - L.top_margin - L.header_h - L.quote_h
       IN  /\ Rendered(IF DOMAIN L.quote_cfg # {}
                       THEN QuoteBoxRendererDraw(L.left_margin, quote_y,
                                                 L.W - L.left_margin - L.right_margin,
                                                 L.quote_h, L.quote_cfg)
                       ELSE Drawn(<<>>, <<>>),
                       "modules")
           /\ cursor_y' = ModulesTop(L.H, L.top_margin, L.header_h, L.quote_h, cursor_y)
    /\ mod_index' = 0
    /\ UNCHANGED <<y_pos, row_count, cell_index, cell_defaults, rule_band, rule_y, exit_code, stdout, inp, fillColor, page_index, newPages, saved, doc>>

\* for m in modules: cornell_renderer.draw(left_margin, y, ..., module_h, m); y -= module_h
draw_module ==
    /\ pc = "modules"
    /\ mod_index < Len(Page.modules)
    /\ LET L == Page
           module_h == ModuleHeight(L.usable_h, L.step, Len(L.modules))
           width == L.W - L.left_margin - L.right_margin
           res == CornellModuleRendererDraw(L.left_margin, cursor_y, width, module_h,
                                            L.modules[mod_index + 1])
       IN  /\ Rendered([res EXCEPT !.calls =
                           <<Call("module", "module", L.left_margin, cursor_y, width, module_h)>> \o @],
                       "modules")
           /\ cursor_y' = cursor_y - module_h
    /\ mod_index' = mod_index + 1
    /\ UNCHANGED <<y_pos, row_count, cell_index, cell_defaults, rule_band, rule_y, exit_code, stdout, inp, fillColor, page_index, newPages, saved, doc>>

\* footer_renderer.draw(left_margin, bottom_margin, W - left_margin - right_margin, footer_h, footer_cfg)
draw_footer ==
    /\ pc = "modules"
    /\ mod_index = Len(Page.modules)
    /\ LET L == Page
       IN  Rendered(FooterRendererDraw(L.left_margin, L.bottom_margin,
                                       L.W - L.left_margin - L.right_margin, L.footer_h,
                                       L.footer_cfg),
                    "page_end")
    /\ UNCHANGED <<y_pos, row_count, cell_index, cell_defaults, rule_band, rule_y, exit_code, stdout, inp, fillColor, page_index, cursor_y, mod_index, newPages, saved, doc>>

\* if page_index < len(pages) - 1: c.showPage()
show_page ==
    /\ pc = "page_end"
    /\ page_index < Len(Pages(inp)) - 1
    /\ doc' = Append(doc, canvas)
    /\ canvas' = <<>>
    /\ calls' = <<>>
    /\ newPages' = newPages + 1
    /\ page_index' = page_index + 1
    /\ pc' = "header"
    /\ UNCHANGED <<y_pos, row_count, cell_index, cell_defaults, rule_band, rule_y, exit_code, stdout, inp, fillColor, cursor_y, mod_index, saved>>

\* c.save()
save ==
    /\ pc = "page_end"
    /\ page_index = Len(Pages(inp)) - 1
    /\ doc' = Append(doc, canvas)
    /\ saved' = saved + 1
    /\ stdout' = Append(stdout, "generated")
    /\ pc' = "done"
    /\ UNCHANGED <<y_pos, row_count, cell_index, cell_defaults, rule_band, rule_y, exit_code, inp, canvas, calls, fillColor, page_index, cursor_y, mod_index, newPages>>

(***************************************************************************)
(* Document runs: the configurations generate() is run on                  *)
(***************************************************************************)
FormatConfigs ==
    {[size |-> "A4", orientation |-> "portrait", line_step_mm |-> 9, base_margin |-> 20],
     [size |-> "A4", line_step_mm |-> 20],
     [size |-> "A5", orientation |-> "landscape", base_margin |-> 20, top_binding_margin |-> 10],
     [size |-> "A5", orientation |-> "landscape", line_step_mm |-> 20]}

TwoFields == <<[label |-> Str(Pt(40))], [label |-> Str(Pt(260)), text_alignment |-> "center"]>>

HeaderConfigs ==
    {[height_mm |-> 0], [height_mm |-> 10, fields |-> TwoFields],
     [height_mm |-> 30, fields |-> TwoFields], [height_mm |-> 30, border_enabled |-> FALSE]}

QuoteConfigs ==
    {<<>>} \cup
    {[height_mm |-> h, quote_box |-> [label |-> Str(Pt(120)), vertical_padding |-> 3]] :
        h \in {0, 10}}

ThreeLabels == <<Str(Pt(30)), Str(Pt(30)), Str(Pt(60))>>

FooterConfigs ==
    {<<>>, [height_mm |-> 20, review_boxes |-> ThreeLabels], [height_mm |-> 20]}

PageModuleConfigs ==
    {[line_step_mm |-> 9, theme_height_mm |-> 14, summary_height_mm |-> 14,
      keyword_width_ratio |-> Ratio(3, 10), line_style |-> "single_line",
      title_label |-> Str(Pt(30)), keyword_label |-> Str(Pt(40))],
     [line_step_mm |-> 20, summary_height_mm |-> 20,
      keyword_width_ratio |-> Ratio(1, 2), line_style |-> "english_grid",
      keyword_label |-> StrList(<<Pt(40), Pt(20)>>)]}

ModuleLists ==
    {<<>>} \cup {[i \in 1..n |-> m] : n \in 1..MaxModules, m \in PageModuleConfigs}

PageConfigs ==
    [page_format : FormatConfigs, header : HeaderConfigs, quote : QuoteConfigs,
     footer : FooterConfigs, modules : ModuleLists]

\* a page with every section, and another of a different size
GoodPage ==
    [page_format |-> [size |-> "A4", line_step_mm |-> 9, base_margin |-> 20],
     header |-> [height_mm |-> 10, fields |-> TwoFields],
     quote |-> [height_mm |-> 10, quote_box |-> [label |-> Str(Pt(120)), vertical_padding |-> 3]],
     footer |-> [height_mm |-> 20, review_boxes |-> ThreeLabels],
     modules |-> <<[line_step_mm |-> 9, theme_height_mm |-> 14, line_style |-> "blank"]>>]

OtherPage ==
    [page_format |-> [size |-> "A5", orientation |-> "landscape", left_binding_margin |-> 30],
     footer |-> [height_mm |-> 10]]

\* pages that leave out a key: a field's label, the quote's label, a
\* module's line_step_mm
FaultyPages ==
    {[GoodPage EXCEPT !.header =
         [height_mm |-> 10, fields |-> <<[label |-> Str(Pt(40))], [text_alignment |-> "center"]>>]],
     [GoodPage EXCEPT !.quote = [height_mm |-> 10, quote_box |-> [vertical_padding |-> 3]]],
     [GoodPage EXCEPT !.modules =
         <<[line_step_mm |-> 9, line_style |-> "blank"], [line_style |-> "blank"]>>]}

\* single_line modules at the page's line step, their bands whole numbers of
\* lines high
AlignedModules ==
    {[line_step_mm |-> 9, theme_height_mm |-> 9, summary_height_mm |-> 18,
      keyword_width_ratio |-> Ratio(3, 10), line_style |-> "single_line",
      title_label |-> Str(Pt(30)), keyword_label |-> Str(Pt(40))],
     [line_step_mm |-> 9, summary_height_mm |-> 9,
      keyword_width_ratio |-> Ratio(1, 2), line_style |-> "single_line",
      keyword_label |-> Str(Pt(40))]}

AlignedDocs ==
    {[GoodPage EXCEPT !.modules = [i \in 1..n |-> m]] : n \in 1..MaxModules, m \in AlignedModules}

\* documents of different pages, documents with a faulty page, a document
\* with an empty pages list, the empty document
MixedDocs ==
    {[pages |-> <<GoodPage, OtherPage>>], [pages |-> <<OtherPage, GoodPage>>],
     [pages |-> <<>>, footer |-> [height_mm |-> 10]], <<>>}
    \cup FaultyPages
    \cup AlignedDocs
    \cup {[pages |-> <<GoodPage, p>>] : p \in FaultyPages}
    \cup {[pages |-> <<p, GoodPage>>] : p \in FaultyPages}

DocConfigs ==
    PageConfigs \cup {[pages |-> [i \in 1..n |-> p]] : n \in 1..MaxPages, p \in PageConfigs}
    \cup MixedDocs \cup {Malformed}

Init ==
    /\ pc = "start"
    /\ inp \in DocConfigs
    /\ canvas = <<>>
    /\ calls = <<>>
    /\ fillColor = "black"
    /\ page_index = 0
    /\ cursor_y = 0
    /\ mod_index = 0
    /\ newPages = 0
    /\ saved = 0
    /\ doc = <<>>
    /\ stdout = <<>>
    /\ exit_code = -1
    /\ rule_band = 0
    /\ rule_y = 0
    /\ cell_index = 0
    /\ cell_defaults = <<>>
    /\ y_pos = 0
    /\ row_count = 0

Next ==
    \/ generate_open
    \/ draw_header
    \/ draw_quote
    \/ draw_module
    \/ draw_footer
    \/ show_page
    \/ save

Spec == Init /\ [][Next]_vars

(***************************************************************************)
(* Footers: FooterRenderer.draw (Cornell_gen_1102.py) and                  *)
(* ComponentRenderer.draw_footer (Notebook_gen.py) on one rectangle        *)
(***************************************************************************)
\* ComponentRenderer.draw_text_box (Notebook_gen.py)
NotebookDrawTextBox(role, x, y, width, height, text_width, config, alignment, vertical_alignment) ==
    LET text_padding == Pt(Get(config, "text_padding", 2))
        vertical_padding == Pt(Get(config, "vertical_padding", 3))
        text_y == CASE vertical_alignment = "top" -> y + height - vertical_padding - TextHeight
                    [] vertical_alignment = "middle" -> y + (height \div 2) - (TextHeight \div 2)
                    [] OTHER -> y + vertical_padding
        text_x == CASE alignment = "left" -> x + text_padding
                    [] alignment = "center" -> x + (width \div 2) - (text_width \div 2)
                    [] OTHER -> x + width - text_padding - text_width
    IN  Drawn(<<Rect(role, x, y, width, height), String(role \o "_text", text_x, text_y, text_width)>>,
              <<Call("text_box", role, x, y, width, height)>>)

\* a review_box_width: a number of points, or "auto"
Fixed(w) == [auto |-> FALSE, w |-> w]
Auto == [auto |-> TRUE, w |-> 0]

\* the loop over the review boxes of draw_footer, from box i on
RECURSIVE NotebookFooterBoxes(_, _, _, _, _, _)
NotebookFooterBoxes(review_boxes, i, cursor_x, y, uniform_spacing, config) ==
    IF i > Len(review_boxes) THEN Drawn(<<>>, <<>>)
    ELSE
    LET label == review_boxes[i]
        configured == Get(config, "review_box_width", Fixed(15))
        box_top_margin == Pt(Get(config, "review_box_top_margin", 10))
        text_padding == Get(config, "review_box_text_padding", 2)
        text_width == label.ws[1]
        box_w == IF configured.auto
                 THEN Max(Pt(15), text_width + 2 * Pt(text_padding))
                 ELSE Max(Pt(configured.w), text_width + 2 * Pt(text_padding))
        box_height == Max(Pt(Get(config, "review_box_height", 5)), TextHeight + 2 * Pt(text_padding))
        box_y == y + box_top_margin
        box_config == [text_padding |-> text_padding, vertical_padding |-> text_padding]
        spacing == IF Len(review_boxes) > 1 THEN uniform_spacing
                   ELSE Pt(Get(config, "review_box_spacing", 10))
    IN  Then(NotebookDrawTextBox("review_box", cursor_x, box_y, box_w, box_height, text_width,
                                 box_config, Get(config, "review_text_alignment", "center"),
                                 "middle"),
             NotebookFooterBoxes(review_boxes, i + 1, cursor_x + box_w + spacing, y,
                                 uniform_spacing, config))

\* ComponentRenderer.draw_footer
NotebookDrawFooter(x, y, width, height, config) ==
    LET review_boxes == Get(config, "review_boxes", <<>>)
        cursor_x == x + Pt(Get(config, "review_label_left_margin", 5))
                      + Pt(Get(config, "review_text_right_spacing", 40))
        configured == Get(config, "review_box_width", Fixed(15))
        total_config_width == IF configured.auto THEN 0 ELSE Pt(configured.w) * Len(review_boxes)
        remaining_space == width - (cursor_x - x) - total_config_width
        uniform_spacing == IF Len(review_boxes) > 1
                           THEN remaining_space \div (Len(review_boxes) - 1)
                           ELSE Pt(Get(config, "review_box_spacing", 10))
    IN  Then(Drawn(<<Rect("footer_border", x, y, width, height)>>, <<>>),
             NotebookFooterBoxes(review_boxes, 1, cursor_x, y, uniform_spacing, config))

\* most review boxes of a footer run
MaxBoxes == 3

\* label widths of the footer runs
LabelWidths == {Pt(12), Pt(100)}

LabelLists == UNION {[1..n -> {Str(w) : w \in LabelWidths}] : n \in 0..MaxBoxes}

CornellFooterConfigs ==
    {[review_boxes |-> b, review_box_text_padding |-> tp] : b \in LabelLists, tp \in {0, 2}}
    \cup {[review_boxes |-> b, border_enabled |-> FALSE] : b \in LabelLists}

NotebookFooterConfigs ==
    {[review_boxes |-> b] : b \in LabelLists}
    \cup {[review_boxes |-> b, review_box_width |-> bw, review_box_text_padding |-> 0] :
            b \in LabelLists, bw \in {Fixed(40), Fixed(65), Auto}}

FooterInputs ==
    {[path |-> "cornell", x |-> x, y |-> Pt(20), width |-> Pt(240), height |-> h, config |-> c] :
        x \in {0, Pt(20)}, h \in {0, 20 * MM_TO_POINTS}, c \in CornellFooterConfigs}
    \cup
    {[path |-> "notebook", x |-> x, y |-> Pt(20), width |-> Pt(240), height |-> Pt(20), config |-> c] :
        x \in {0, Pt(20)}, c \in NotebookFooterConfigs}

InitFooter ==
    /\ pc = "footer"
    /\ inp \in FooterInputs
    /\ canvas = <<>>
    /\ calls = <<>>
    /\ fillColor = "black"
    /\ page_index = 0
    /\ cursor_y = 0
    /\ mod_index = 0
    /\ newPages = 0
    /\ saved = 0
    /\ doc = <<>>
    /\ stdout = <<>>
    /\ exit_code = -1
    /\ rule_band = 0
    /\ rule_y = 0
    /\ cell_index = 0
    /\ cell_defaults = <<>>
    /\ y_pos = 0
    /\ row_count = 0

FooterReturn(res) ==
    /\ canvas' = canvas \o res.canvas
    /\ calls' = calls \o res.calls
    /\ pc' = IF res.err = "" THEN "footer_done" ELSE res.err
    /\ UNCHANGED <<y_pos, row_count, cell_index, cell_defaults, rule_band, rule_y, exit_code, stdout, inp, fillColor, page_index, cursor_y, mod_index, newPages, saved, doc>>

FooterRenderer_draw ==
    /\ pc = "footer" /\ inp.path = "cornell"
    /\ FooterReturn(FooterRendererDraw(inp.x, inp.y, inp.width, inp.height, inp.config))

draw_footer_notebook ==
    /\ pc = "footer" /\ inp.path = "notebook"
    /\ FooterReturn(NotebookDrawFooter(inp.x, inp.y, inp.width, inp.height, inp.config))

NextFooter ==
    \/ FooterRenderer_draw
    \/ draw_footer_notebook

SpecFooter == InitFooter /\ [][NextFooter]_vars

(***************************************************************************)
(* Components on one rectangle: the text box, header and quote box of      *)
(* Cornell_gen_1102.py and of Notebook_gen.py                              *)
(***************************************************************************)
\* stringWidth(":") at 12 points; depends on the font
ColonWidth == Pt(4)

\* the loop over the fields of draw_header, from field i on
RECURSIVE NotebookHeaderFields(_, _, _, _, _, _)
NotebookHeaderFields(fields, i, cursor_x, y, uniform_field_width, config) ==
    IF i > Len(fields) THEN Drawn(<<>>, <<>>)
    ELSE
    LET field == fields[i]
        text_padding == Get(field, "text_padding", 2)
        vertical_padding == Get(field, "vertical_padding", 3)
    IN  IF ~Has(field, "label") THEN Raised(<<>>, <<>>, "KeyError")
        ELSE
        LET text_width == field["label"].ws[1] + ColonWidth
            field_width == Max(uniform_field_width, text_width + 2 * Pt(text_padding))
            field_height == Max(Pt(20), TextHeight + 2 * Pt(vertical_padding))
            box_y == y - field_height + Pt(Get(config, "field_vertical_padding", 6))
            field_config == [text_padding |-> text_padding, vertical_padding |-> vertical_padding]
            field_spacing == Pt(Get(config, "field_spacing", 5))
        IN  Then(NotebookDrawTextBox("header_field", cursor_x, box_y, field_width, field_height,
                                     text_width, field_config,
                                     Get(field, "text_alignment", "left"),
                                     Get(field, "vertical_alignment", "top")),
                 NotebookHeaderFields(fields, i + 1, cursor_x + field_width + field_spacing, y,
                                      uniform_field_width, config))

\* ComponentRenderer.draw_header
NotebookDrawHeader(x, y, width, height, config) ==
    LET margin == Pt(Get(config, "field_margin", 5))
        fields == Get(config, "fields", <<>>)
        field_spacing == Pt(Get(config, "field_spacing", 5))
        total_field_width == width - 2 * margin - (Len(fields) - 1) * field_spacing
        uniform_field_width == IF fields # <<>> THEN total_field_width \div Len(fields) ELSE 0
    IN  NotebookHeaderFields(fields, 1, x + margin, y, uniform_field_width, config)

\* ComponentRenderer.draw_quote_box; the quote's height is in points
NotebookDrawQuoteBox(x, y, width, height, config) ==
    IF ~Has(config, "quote_box") \/ DOMAIN Get(config, "quote_box", <<>>) = {}
    THEN Drawn(<<>>, <<>>)
    ELSE
    LET quote == config["quote_box"]
        quote_label_padding == Get(config, "quote_label_padding", 5)
        quote_vertical_padding == Get(quote, "vertical_padding", 3)
    IN  IF ~Has(quote, "label") \/ ~Has(quote, "height") THEN Raised(<<>>, <<>>, "KeyError")
        ELSE
        LET quote_text_width == quote["label"].ws[1] + ColonWidth
            quote_box_height == Max(Pt(quote["height"]), TextHeight + 2 * Pt(quote_vertical_padding))
            quote_config == [text_padding |-> quote_label_padding,
                             vertical_padding |-> quote_vertical_padding]
        IN  NotebookDrawTextBox("quote_box", x, y, width, quote_box_height, quote_text_width,
                                quote_config, "left", "middle")

\* most fields of a header in the component runs
MaxFields == 3

\* the fields of the header runs
FieldConfigs ==
    {[label |-> Str(Pt(40))],
     [label |-> Str(Pt(130))],
     [label |-> Str(Pt(130)), text_padding |-> 10, vertical_padding |-> 8,
      text_alignment |-> "center"]}

FieldLists == UNION {[1..n -> FieldConfigs] : n \in 0..MaxFields}

\* the arguments of the component runs; path names the file of the renderer
TextBoxInputs ==
    {[kind |-> "text_box", path |-> p, x |-> Pt(10), y |-> Pt(20), width |-> w, height |-> Pt(20),
      config |-> c @@ [text |-> Str(tw), alignment |-> a, vertical_alignment |-> va]] :
        p \in {"cornell", "notebook"}, w \in {Pt(40), Pt(100)}, tw \in {Pt(30), Pt(60)},
        a \in {"left", "center", "right"}, va \in {"top", "middle", "bottom"},
        c \in {<<>>} \cup {[text_padding |-> tp] : tp \in {0, 5, 9}}}

HeaderInputs ==
    {[kind |-> "header", path |-> "cornell", x |-> Pt(10), y |-> Pt(800), width |-> Pt(240),
      height |-> Pt(30), config |-> c @@ [fields |-> f]] :
        f \in FieldLists,
        c \in {<<>>, [field_margin |-> 6, field_spacing |-> 12]}}
    \cup
    {[kind |-> "header", path |-> "notebook", x |-> Pt(10), y |-> Pt(800), width |-> Pt(245),
      height |-> Pt(30), config |-> c @@ [fields |-> f]] :
        f \in FieldLists,
        c \in {<<>>, [field_margin |-> 3, field_spacing |-> 7]}}

QuoteInputs ==
    {[kind |-> "quote", path |-> "cornell", x |-> Pt(10), y |-> Pt(700), width |-> Pt(240),
      height |-> h, config |-> c @@ [quote_box |-> q]] :
        h \in {0, Pt(10), Pt(40)},
        c \in {<<>>, [border_enabled |-> FALSE], [quote_label_padding |-> 5]},
        q \in {[label |-> Str(Pt(120))], [label |-> Str(Pt(120)), vertical_padding |-> 8]}}
    \cup
    {[kind |-> "quote", path |-> "notebook", x |-> Pt(10), y |-> Pt(700), width |-> Pt(240),
      height |-> Pt(q.height), config |-> c @@ [quote_box |-> q]] :
        c \in {<<>>, [quote_label_padding |-> 0]},
        q \in {[label |-> Str(Pt(120)), height |-> h] : h \in {0, 10, 40}}
              \cup {[label |-> Str(Pt(120)), height |-> h, vertical_padding |-> 8] :
                      h \in {0, 10, 40}}}

ComponentInputs == TextBoxInputs \cup HeaderInputs \cup QuoteInputs

InitComponent ==
    /\ pc = "component"
    /\ inp \in ComponentInputs
    /\ canvas = <<>>
    /\ calls = <<>>
    /\ fillColor = "black"
    /\ page_index = 0
    /\ cursor_y = 0
    /\ mod_index = 0
    /\ newPages = 0
    /\ saved = 0
    /\ doc = <<>>
    /\ stdout = <<>>
    /\ exit_code = -1
    /\ rule_band = 0
    /\ rule_y = 0
    /\ cell_index = 0
    /\ cell_defaults = <<>>
    /\ y_pos = 0
    /\ row_count = 0

ComponentReturn(res) ==
    /\ canvas' = canvas \o res.canvas
    /\ calls' = calls \o res.calls
    /\ pc' = IF res.err = "" THEN "component_done" ELSE res.err
    /\ UNCHANGED <<y_pos, row_count, cell_index, cell_defaults, rule_band, rule_y, exit_code, stdout, inp, fillColor, page_index, cursor_y, mod_index, newPages, saved, doc>>

TextBoxRenderer_draw ==
    /\ pc = "component" /\ inp.kind = "text_box" /\ inp.path = "cornell"
    /\ ComponentReturn(TextBoxRendererDraw("box", inp.x, inp.y, inp.width, inp.height, inp.config))

draw_text_box ==
    /\ pc = "component" /\ inp.kind = "text_box" /\ inp.path = "notebook"
    /\ ComponentReturn(NotebookDrawTextBox("box", inp.x, inp.y, inp.width, inp.height,
                                           inp.config.text.ws[1], inp.config,
                                           inp.config.alignment, inp.config.vertical_alignment))

HeaderRenderer_draw ==
    /\ pc = "component" /\ inp.kind = "header" /\ inp.path = "cornell"
    /\ ComponentReturn(HeaderRendererDraw(inp.x, inp.y, inp.width, inp.height, inp.config))

draw_header_notebook ==
    /\ pc = "component" /\ inp.kind = "header" /\ inp.path = "notebook"
    /\ ComponentReturn(NotebookDrawHeader(inp.x, inp.y, inp.width, inp.height, inp.config))

QuoteBoxRenderer_draw ==
    /\ pc = "component" /\ inp.kind = "quote" /\ inp.path = "cornell"
    /\ ComponentReturn(QuoteBoxRendererDraw(inp.x, inp.y, inp.width, inp.height, inp.config))

draw_quote_box ==
    /\ pc = "component" /\ inp.kind = "quote" /\ inp.path = "notebook"
    /\ ComponentReturn(NotebookDrawQuoteBox(inp.x, inp.y, inp.width, inp.height, inp.config))

NextComponent ==
    \/ TextBoxRenderer_draw
    \/ draw_text_box
    \/ HeaderRenderer_draw
    \/ draw_header_notebook
    \/ QuoteBoxRenderer_draw
    \/ draw_quote_box

SpecComponent == InitComponent /\ [][NextComponent]_vars

(***************************************************************************)
(* The ruled-line loops of a single_line module, one iteration at a time   *)
(***************************************************************************)
\* most lines one module run records
MaxLines == 12

\* yy = start; while dir * (yy - stop) > 0: line(x1, yy, x2, yy); yy -= dir * step
\* (dir = 1: downwards, "while yy > stop"; dir = -1: upwards, "while yy < stop")
Loop(role, x1, x2, start, stop, dir) ==
    [role |-> role, x1 |-> x1, x2 |-> x2, start |-> start, stop |-> stop, dir |-> dir]

\* _draw_single_line_layout: draw_single_line_grid for the notes, the
\* keywords, the summary and the title, each "while yy > y - height"
CornellSingleLineLoops(x, y, width, height, config) ==
    LET theme_h == Get(config, "theme_height_mm", 0) * MM_TO_POINTS
        summary_h == Get(config, "summary_height_mm", 0) * MM_TO_POINTS
        keyword_w == Scale(width, Get(config, "keyword_width_ratio", Ratio(3, 10)))
        grid(role, gx, gy, gw, gh) == Loop(role, gx, gx + gw, gy, gy - gh, 1)
    IN  [step |-> Get(config, "line_step_mm", 0) * MM_TO_POINTS,
         loops |-> <<grid("grid_notes", x + keyword_w, y - theme_h,
                          width - keyword_w, height - theme_h - summary_h),
                     grid("grid_keywords", x, y - theme_h,
                          keyword_w, height - theme_h - summary_h),
                     grid("grid_summary", x, y - (height - summary_h), width, summary_h),
                     grid("grid_title", x, TitleGridTop(y, theme_h), width, theme_h)>>]

\* draw_cornell_module, line_style single_line: five while loops
NotebookSingleLineLoops(x, y, width, height, config) ==
    LET theme_h == Pt(Get(config, "theme_height", 14))
        summary_h == Pt(Get(config, "summary_height", 14))
        keyword_w == Scale(width, Get(config, "keyword_width_ratio", Ratio(3, 10)))
        gx == Pt(Get(config, "grid_offset_x", 2))
        gy == Pt(Get(config, "grid_offset_y", 4))
        mid_summary == y - height + (summary_h \div 2)
    IN  [step |-> Pt(Get(config, "line_step", 8)),
         loops |-> <<Loop("grid_notes", x + keyword_w + gx, x + width - gx,
                          y - (theme_h + gy), y - height + (summary_h + gy), 1),
                     Loop("grid_keywords", x + gx, x + keyword_w - gx,
                          y - theme_h - gy, y - height + summary_h + gy, 1),
                     Loop("grid_summary", x + gx, x + width - gx,
                          y - height + summary_h - gy, mid_summary + gy, 1),
                     Loop("grid_summary", x + gx, x + width - gx,
                          mid_summary - gy, y - height + gy, 1),
                     Loop("grid_title", x + gx, x + width - gx,
                          y - theme_h + gy, y - gy, -1)>>]

\* the loops of the module of the run
SingleLineLoops ==
    IF inp.path = "cornell"
    THEN CornellSingleLineLoops(inp.x, inp.y, inp.width, inp.height, inp.config)
    ELSE NotebookSingleLineLoops(inp.x, inp.y, inp.width, inp.height, inp.config)

\* the loop that is running, and its condition
RuleLoop == SingleLineLoops.loops[rule_band]

RuleContinues == RuleLoop.dir * (rule_y - RuleLoop.stop) > 0

\* line steps of the layout runs: negative, zero, positive
LayoutSteps == {-9, 0, 9}

LayoutInputs ==
    {[path |-> "cornell", x |-> Pt(20), y |-> Pt(700), width |-> 60 * MM_TO_POINTS,
      height |-> h * MM_TO_POINTS,
      config |-> [line_step_mm |-> s, theme_height_mm |-> t, summary_height_mm |-> u,
                  keyword_width_ratio |-> Ratio(3, 10), line_style |-> "single_line"]] :
        h \in {0, 27, 45}, s \in LayoutSteps, t \in {0, 9}, u \in {0, 9}}
    \cup
    {[path |-> "notebook", x |-> Pt(20), y |-> Pt(700), width |-> 60 * MM_TO_POINTS,
      height |-> Pt(h),
      config |-> [line_step |-> s, theme_height |-> t, summary_height |-> u,
                  line_style |-> "single_line"]] :
        h \in {0, 45}, s \in LayoutSteps, t \in {0, 14}, u \in {0, 14}}

InitLayout ==
    /\ pc = "layout"
    /\ inp \in LayoutInputs
    /\ canvas = <<>>
    /\ calls = <<>>
    /\ fillColor = "black"
    /\ page_index = 0
    /\ cursor_y = 0
    /\ mod_index = 0
    /\ newPages = 0
    /\ saved = 0
    /\ doc = <<>>
    /\ stdout = <<>>
    /\ exit_code = -1
    /\ rule_band = 0
    /\ rule_y = 0
    /\ cell_index = 0
    /\ cell_defaults = <<>>
    /\ y_pos = 0
    /\ row_count = 0

\* the first loop is entered: yy = y
single_line_layout ==
    /\ pc = "layout"
    /\ pc' = "rule"
    /\ rule_band' = 1
    /\ rule_y' = SingleLineLoops.loops[1].start
    /\ UNCHANGED <<y_pos, row_count, cell_index, cell_defaults, exit_code, stdout, inp, canvas, calls, fillColor, page_index, cursor_y,
                   mod_index, newPages, saved, doc>>

\* one iteration: c.line(x, yy, x + width, yy); yy -= line_step
rule_line ==
    /\ pc = "rule"
    /\ RuleContinues
    /\ Len(canvas) < MaxLines
    /\ canvas' = Append(canvas, Line(RuleLoop.role, RuleLoop.x1, rule_y, RuleLoop.x2, rule_y))
    /\ rule_y' = rule_y - RuleLoop.dir * SingleLineLoops.step
    /\ UNCHANGED <<y_pos, row_count, cell_index, cell_defaults, exit_code, stdout, inp, pc, calls, fillColor, page_index, cursor_y,
                   mod_index, rule_band, newPages, saved, doc>>

\* the loop's condition is false: the next draw_single_line_grid call, or
\* the next while loop, starts
rule_next ==
    /\ pc = "rule"
    /\ ~RuleContinues
    /\ rule_band < Len(SingleLineLoops.loops)
    /\ rule_band' = rule_band + 1
    /\ rule_y' = SingleLineLoops.loops[rule_band + 1].start
    /\ UNCHANGED <<y_pos, row_count, cell_index, cell_defaults, exit_code, stdout, inp, pc, canvas, calls, fillColor, page_index, cursor_y,
                   mod_index, newPages, saved, doc>>

\* the last loop's condition is false: the layout returns
rule_return ==
    /\ pc = "rule"
    /\ ~RuleContinues
    /\ rule_band = Len(SingleLineLoops.loops)
    /\ pc' = "layout_done"
    /\ UNCHANGED <<y_pos, row_count, cell_index, cell_defaults, exit_code, stdout, inp, canvas, calls, fillColor, page_index, cursor_y,
                   mod_index, rule_band, rule_y, newPages, saved, doc>>

NextLayout ==
    \/ single_line_layout
    \/ rule_line
    \/ rule_next
    \/ rule_return

\* the interpreter keeps executing the loop
SpecLayout == InitLayout /\ [][NextLayout]_vars /\ WF_vars(NextLayout)

(***************************************************************************)
(* AreaMatrixRenderer and MatrixNotebookGenerator.generate (Matrix_gen.py) *)
(***************************************************************************)
\* most rows and columns of the matrix runs
MaxRows == 2

MaxCols == 2

\* _draw_border: one line per enabled side of [x, x + width] x [y, y + height]
AreaBorder(x, y, width, height, config) ==
    LET border_sides == Get(config, "border_sides", <<>>)
    IN  (IF Get(border_sides, "top", TRUE)
         THEN <<Line("cell_border", x, y + height, x + width, y + height)>> ELSE <<>>)
        \o (IF Get(border_sides, "bottom", TRUE)
            THEN <<Line("cell_border", x, y, x + width, y)>> ELSE <<>>)
        \o (IF Get(border_sides, "left", TRUE)
            THEN <<Line("cell_border", x, y, x, y + height)>> ELSE <<>>)
        \o (IF Get(border_sides, "right", TRUE)
            THEN <<Line("cell_border", x + width, y, x + width, y + height)>> ELSE <<>>)

\* _draw_grid: the grid generator of grid_type is given (x, y, width, height)
AreaGrid(x, y, width, height, grid_type, config) ==
    CASE grid_type = "dotted" ->
           DottedGrid("cell_grid", x, y, width, height,
                      Get(config, "grid_spacing", 20) * MM_TO_POINTS)
      [] grid_type = "single_line" ->
           SingleLineGrid("cell_grid", x, y, width, height,
                          Get(config, "grid_line_step_mm", 9) * MM_TO_POINTS)
      [] grid_type = "four_line_three_grid" ->
           FourLineThreeGrid("cell_grid", x, y, width, height,
               [i \in 1..3 |-> Get(config, "grid_row_heights_mm", <<3, 3, 3>>)[i] * MM_TO_POINTS])
      [] grid_type = "english_grid" ->
           EnglishGrid("cell_grid", x, y, width, height,
                       Get(config, "grid_line_spacing_mm", 8) * MM_TO_POINTS)
      [] grid_type = "tianzige" ->
           TianzigeGrid("cell_grid", x, y, width, height,
                        Get(config, "grid_cell_size_mm", 30) * MM_TO_POINTS)
      [] OTHER -> <<>>

\* _draw_fill_text: the text's anchor from the two alignments
AreaFillText(x, y, width, height, text, config) ==
    LET text_alignment == Get(config, "text_alignment", "left")
        vertical_alignment == Get(config, "vertical_alignment", "top")
        text_padding == Pt(Get(config, "text_padding", 2))
        text_width == text.ws[1]
        text_height == Pt(Get(config, "font_size", 12))
        text_y == CASE vertical_alignment = "top" -> y + height - text_padding - text_height
                    [] vertical_alignment = "middle" -> y + (height \div 2) - (text_height \div 2)
                    [] OTHER -> y + text_padding
        text_x == CASE text_alignment = "left" -> x + text_padding
                    [] text_alignment = "center" -> x + (width \div 2) - (text_width \div 2)
                    [] OTHER -> x + width - text_padding - text_width
    IN  <<String("cell_text", text_x, text_y, text_width)>>

\* AreaMatrixRenderer.draw: border, grid and fill text of one area; a
\* grid_type of "" or a fill_text of "" stands for the absent key
AreaMatrixRendererDraw(x, y, width, height, config) ==
    (IF Get(config, "border_enabled", FALSE)
     THEN AreaBorder(x, y, width, height, config) ELSE <<>>)
    \o (IF Get(config, "grid_type", "") # ""
        THEN AreaGrid(x, y, width, height, config["grid_type"], config) ELSE <<>>)
    \o (IF Has(config, "fill_text")
        THEN AreaFillText(x, y, width, height, config["fill_text"], config) ELSE <<>>)

\* cell_config_map[(row, col)] = cell["config"], a later entry replacing an
\* earlier one for the same cell
CellConfigMap(special_cells) ==
    LET keys == {<<special_cells[i].row, special_cells[i].col>> : i \in DOMAIN special_cells}
        last(k) == CHOOSE i \in DOMAIN special_cells :
                      /\ <<special_cells[i].row, special_cells[i].col>> = k
                      /\ \A j \in DOMAIN special_cells :
                            <<special_cells[j].row, special_cells[j].col>> = k => j <= i
    IN  [k \in keys |-> special_cells[last(k)].config]

\* config = cell_defaults.copy(); config.update(cell_config_map[(row, col)])
CellConfig(defaults, cell_config_map, row, col) ==
    IF <<row, col>> \in DOMAIN cell_config_map
    THEN cell_config_map[<<row, col>>] @@ defaults
    ELSE defaults

\* the cell_defaults dictionary after a cell's configuration was made from it
CellDefaultsAfterMutInPlace(defaults, config) == config

CellDefaultsAfter(defaults, config) == defaults

\* the matrix of a configuration file: page size, margin, rows, cols, cell
\* size and the special cells
Matrix(cfg) ==
    LET page_cfg == Get(cfg, "page_format", <<>>)
        size == PageSize(page_cfg)
        W == size[1]
        H == size[2]
        margin == Pt(Get(page_cfg, "margin", 20))
        matrix_cfg == Get(cfg, "matrix", <<>>)
        rows == Get(matrix_cfg, "rows", 10)
        cols == Get(matrix_cfg, "cols", 6)
        content_width == W - 2 * margin
        content_height == H - 2 * margin
    IN  [W |-> W, H |-> H, margin |-> margin, rows |-> rows, cols |-> cols,
         cell_defaults |-> Get(matrix_cfg, "cell_defaults", <<>>),
         cell_config_map |-> CellConfigMap(Get(matrix_cfg, "cells", <<>>)),
         cell_width |-> IF cols = 0 THEN 0 ELSE content_width \div cols,
         cell_height |-> IF rows = 0 THEN 0 ELSE content_height \div rows]

\* renderer.draw(x, y, cell_width, cell_height, config) for the cell
\* (row, col); first..last are the positions of its primitives on the canvas
CellCall(row, col, x, y, width, height, config, first, last) ==
    [fn |-> "draw", role |-> "cell", row |-> row, col |-> col,
     x |-> x, y |-> y, width |-> width, height |-> height,
     config |-> config, first |-> first, last |-> last]

\* json.load, the page, the matrix and the cell size: cell_width =
\* content_width / cols, cell_height = content_height / rows
matrix_open ==
    /\ pc = "matrix_start"
    /\ LET M == Matrix(inp)
       IN  /\ pc' = IF Has(inp, "malformed") THEN "JSONDecodeError"
                    ELSE IF M.cols = 0 \/ M.rows = 0 THEN "ZeroDivisionError" ELSE "cells"
           /\ cell_defaults' = M.cell_defaults
    /\ cell_index' = 0
    /\ UNCHANGED <<y_pos, row_count, exit_code, stdout, inp, canvas, calls, fillColor, page_index, cursor_y,
                   mod_index, rule_band, rule_y, newPages, saved, doc>>

\* one iteration of "for row in range(rows): for col in range(cols)"
matrix_cell ==
    /\ pc = "cells"
    /\ cell_index < Matrix(inp).rows * Matrix(inp).cols
    /\ LET M == Matrix(inp)
           row == cell_index \div M.cols
           col == cell_index % M.cols
           x == M.margin + col * M.cell_width
           y == M.H - M.margin - (row + 1) * M.cell_height
           config == CellConfig(cell_defaults, M.cell_config_map, row, col)
           prims == AreaMatrixRendererDraw(x, y, M.cell_width, M.cell_height, config)
       IN  /\ canvas' = canvas \o prims
           /\ calls' = Append(calls, CellCall(row, col, x, y, M.cell_width, M.cell_height, config,
                                              Len(canvas) + 1, Len(canvas) + Len(prims)))
           /\ cell_defaults' = CellDefaultsAfter(cell_defaults, config)
           /\ fillColor' = IF Get(config, "grid_type", "") = "dotted" THEN "black" ELSE fillColor
    /\ cell_index' = cell_index + 1
    /\ UNCHANGED <<y_pos, row_count, exit_code, stdout, inp, pc, page_index, cursor_y, mod_index,
                   rule_band, rule_y, newPages, saved, doc>>

\* c.showPage(); c.save(); the message
matrix_save ==
    /\ pc = "cells"
    /\ cell_index = Matrix(inp).rows * Matrix(inp).cols
    /\ doc' = Append(doc, canvas)
    /\ newPages' = newPages + 1
    /\ saved' = saved + 1
    /\ stdout' = Append(stdout, "generated")
    /\ pc' = "done"
    /\ UNCHANGED <<y_pos, row_count, exit_code, inp, canvas, calls, fillColor, page_index, cursor_y, mod_index,
                   rule_band, rule_y, cell_index, cell_defaults>>

\* margins of the matrix runs, in points: with them the content's sides are
\* whole multiples of every number of rows and columns up to 4
MatrixMargins == {0, 18}

CellDefaultsConfigs ==
    {<<>>,
     [border_enabled |-> TRUE],
     [border_enabled |-> TRUE, border_sides |-> [top |-> FALSE, left |-> FALSE],
      fill_text |-> Str(Pt(30))],
     [border_enabled |-> TRUE, grid_type |-> "dotted", grid_spacing |-> 40],
     [border_enabled |-> TRUE, grid_type |-> "single_line", grid_line_step_mm |-> 30,
      fill_text |-> Str(Pt(30)), text_alignment |-> "center", vertical_alignment |-> "middle"],
     [grid_type |-> "four_line_three_grid", grid_row_heights_mm |-> <<20, 20, 20>>],
     [border_enabled |-> TRUE, grid_type |-> "english_grid", grid_line_spacing_mm |-> 40],
     [border_enabled |-> TRUE, grid_type |-> "tianzige", grid_cell_size_mm |-> 60,
      fill_text |-> Str(Pt(30)), text_alignment |-> "right", vertical_alignment |-> "bottom"],
     [border_enabled |-> TRUE, grid_type |-> "hexagons"]}

\* the "cells" list: none, one cell, the last cell, one cell twice, a cell
\* outside the matrix
SpecialCellLists ==
    {<<>>,
     <<[row |-> 0, col |-> 0, config |-> [grid_type |-> "single_line", grid_line_step_mm |-> 30]]>>,
     <<[row |-> 1, col |-> 1, config |-> [border_enabled |-> FALSE, fill_text |-> Str(Pt(50))]]>>,
     <<[row |-> 0, col |-> 0, config |-> [grid_type |-> "dotted", grid_spacing |-> 40]],
       [row |-> 0, col |-> 0, config |-> [fill_text |-> Str(Pt(50))]]>>,
     <<[row |-> 7, col |-> 0, config |-> [fill_text |-> Str(Pt(50))]]>>}

MatrixConfigs ==
    {[page_format |-> [size |-> "A4", margin |-> m],
      matrix |-> [rows |-> r, cols |-> c, cell_defaults |-> d, cells |-> s]] :
        m \in MatrixMargins, r \in 0..MaxRows, c \in 1..MaxCols,
        d \in CellDefaultsConfigs, s \in SpecialCellLists}
    \cup
    {[page_format |-> [size |-> "A5", orientation |-> "landscape", margin |-> 0],
      matrix |-> [rows |-> 1, cols |-> c, cell_defaults |-> d]] :
        c \in 1..MaxCols, d \in CellDefaultsConfigs}

InitMatrix ==
    /\ pc = "matrix_start"
    /\ inp \in MatrixConfigs \cup {Malformed}
    /\ canvas = <<>>
    /\ calls = <<>>
    /\ fillColor = "black"
    /\ page_index = 0
    /\ cursor_y = 0
    /\ mod_index = 0
    /\ newPages = 0
    /\ saved = 0
    /\ doc = <<>>
    /\ stdout = <<>>
    /\ exit_code = -1
    /\ rule_band = 0
    /\ rule_y = 0
    /\ cell_index = 0
    /\ cell_defaults = <<>>
    /\ y_pos = 0
    /\ row_count = 0

NextMatrix ==
    \/ matrix_open
    \/ matrix_cell
    \/ matrix_save

SpecMatrix == InitMatrix /\ [][NextMatrix]_vars

(***************************************************************************)
(* Two runs of NotebookGenerator.generate on one configuration: the second *)
(* starts with whatever the first left in the loop variables               *)
(***************************************************************************)
\* generator.generate() once more: a new canvas, the same configuration
generate_again ==
    /\ pc = "done" /\ saved = 1
    /\ pc' = "start"
    /\ canvas' = <<>>
    /\ calls' = <<>>
    /\ UNCHANGED <<y_pos, row_count, cell_index, cell_defaults, rule_band, rule_y, exit_code, stdout, inp, fillColor, page_index, cursor_y, mod_index, newPages, saved, doc>>

NextTwice ==
    \/ generate_open
    \/ draw_header
    \/ draw_quote
    \/ draw_module
    \/ draw_footer
    \/ show_page
    \/ save
    \/ generate_again

SpecTwice == Init /\ [][NextTwice]_vars

(***************************************************************************)
(* generate_notebook (Notebook_gen.py): one A4 page; lengths of its        *)
(* configuration are in points                                             *)
(***************************************************************************)
\* the geometry generate_notebook computes
NotebookLayout(cfg) ==
    LET page_cfg == Get(cfg, "page", <<>>)
        margin == Pt(Get(page_cfg, "margin", 20))
        size == IF Get(page_cfg, "orientation", "portrait") = "landscape"
                THEN <<A4[2], A4[1]>> ELSE A4
        header_cfg == Get(cfg, "header", <<>>)
        footer_cfg == Get(cfg, "footer", <<>>)
        quote_box == Get(header_cfg, "quote_box", <<>>)
        header_h == Pt(Get(header_cfg, "height", 30))
        footer_h == Pt(Get(footer_cfg, "height", 20))
        quote_h == IF DOMAIN quote_box # {} THEN Pt(Get(quote_box, "height", 0)) ELSE 0
    IN  [W |-> size[1], H |-> size[2], margin |-> margin,
         header_cfg |-> header_cfg, footer_cfg |-> footer_cfg, quote_box |-> quote_box,
         modules |-> Get(cfg, "modules", <<>>),
         module_spacing |-> Pt(Get(cfg, "module_spacing", 5)),
         header_h |-> header_h, footer_h |-> footer_h, quote_h |-> quote_h,
         usable_h |-> size[2] - margin * 2 - header_h - quote_h - footer_h]

\* module_h = usable_h / len(modules) - module_spacing
NotebookModuleHeight(usable_h, n, module_spacing) == (usable_h \div n) - module_spacing

\* json.load(f); c = canvas.Canvas(output, pagesize=(W, H));
\* quote_h = quote_box["height"] if quote_box else 0
notebook_open ==
    /\ pc = "nb_start"
    /\ pc' = IF Has(inp, "malformed") THEN "JSONDecodeError"
             ELSE IF /\ DOMAIN NotebookLayout(inp).quote_box # {}
                     /\ ~Has(NotebookLayout(inp).quote_box, "height")
                  THEN "KeyError"
                  ELSE "nb_header"
    /\ UNCHANGED <<y_pos, row_count, cell_index, cell_defaults, rule_band, rule_y, exit_code, stdout, inp, canvas, calls, fillColor, page_index, cursor_y, mod_index, newPages,
                   saved, doc>>

\* renderer.draw_header(margin, H - margin, W - 2 * margin, header_h, header_cfg)
notebook_header ==
    /\ pc = "nb_header"
    /\ LET L == NotebookLayout(inp)
       IN  Rendered(NotebookDrawHeader(L.margin, L.H - L.margin, L.W - 2 * L.margin,
                                       L.header_h, L.header_cfg),
                    "nb_quote")
    /\ UNCHANGED <<y_pos, row_count, cell_index, cell_defaults, rule_band, rule_y, exit_code, stdout, inp, fillColor, page_index, cursor_y, mod_index, newPages, saved, doc>>

\* if quote_box: renderer.draw_quote_box(margin, quote_y, W - 2 * margin, quote_h, header_cfg);
\* then y = H - margin - header_h - quote_h - module_spacing for the modules
notebook_quote ==
    /\ pc = "nb_quote"
    /\ LET L == NotebookLayout(inp)
           quote_y == L.H - L.margin - L.header_h - L.quote_h
       IN  /\ Rendered(IF DOMAIN L.quote_box # {}
                       THEN NotebookDrawQuoteBox(L.margin, quote_y, L.W - 2 * L.margin,
                                                 L.quote_h, L.header_cfg)
                       ELSE Drawn(<<>>, <<>>),
                       "nb_modules")
           /\ cursor_y' = L.H - L.margin - L.header_h - L.quote_h - L.module_spacing
    /\ mod_index' = 0
    /\ UNCHANGED <<y_pos, row_count, cell_index, cell_defaults, rule_band, rule_y, exit_code, stdout, inp, fillColor, page_index, newPages, saved, doc>>

\* for m in modules: renderer.draw_cornell_module(margin, y, W - 2 * margin, module_h, m);
\* y -= module_h + module_spacing
notebook_module ==
    /\ pc = "nb_modules"
    /\ mod_index < Len(NotebookLayout(inp).modules)
    /\ LET L == NotebookLayout(inp)
           module_h == NotebookModuleHeight(L.usable_h, Len(L.modules), L.module_spacing)
           width == L.W - 2 * L.margin
           res == NotebookDrawCornellModule(L.margin, cursor_y, width, module_h,
                                            L.modules[mod_index + 1])
       IN  /\ Rendered([res EXCEPT !.calls =
                           <<Call("module", "module", L.margin, cursor_y, width, module_h)>> \o @],
                       "nb_modules")
           /\ cursor_y' = cursor_y - (module_h + L.module_spacing)
    /\ mod_index' = mod_index + 1
    /\ UNCHANGED <<y_pos, row_count, cell_index, cell_defaults, rule_band, rule_y, exit_code, stdout, inp, fillColor, page_index, newPages, saved, doc>>

\* renderer.draw_footer(margin, margin, W - 2 * margin, footer_h, footer_cfg)
notebook_footer ==
    /\ pc = "nb_modules"
    /\ mod_index = Len(NotebookLayout(inp).modules)
    /\ LET L == NotebookLayout(inp)
       IN  Rendered(NotebookDrawFooter(L.margin, L.margin, L.W - 2 * L.margin, L.footer_h,
                                       L.footer_cfg),
                    "nb_page_end")
    /\ UNCHANGED <<y_pos, row_count, cell_index, cell_defaults, rule_band, rule_y, exit_code, stdout, inp, fillColor, page_index, cursor_y, mod_index, newPages, saved, doc>>

\* c.showPage(); c.save()
notebook_save ==
    /\ pc = "nb_page_end"
    /\ doc' = Append(doc, canvas)
    /\ newPages' = newPages + 1
    /\ saved' = saved + 1
    /\ stdout' = Append(stdout, "generated")
    /\ pc' = "done"
    /\ UNCHANGED <<y_pos, row_count, cell_index, cell_defaults, rule_band, rule_y, exit_code, inp, canvas, calls, fillColor, page_index, cursor_y, mod_index>>

NotebookHeaderConfigs ==
    {<<>>,
     [fields |-> TwoFields],
     [height |-> 20, fields |-> TwoFields, quote_box |-> [label |-> Str(Pt(120)), height |-> 30]],
     [fields |-> TwoFields, quote_box |-> [label |-> Str(Pt(120))]],
     [fields |-> <<[label |-> Str(Pt(40))], [text_alignment |-> "center"]>>],
     [quote_box |-> [height |-> 30]]}

NotebookPageModules ==
    {[line_style |-> "single_line"],
     [theme_height |-> 0, summary_height |-> 20, line_style |-> "four_line_three_grid"]}

NotebookConfigs ==
    {[page |-> p, header |-> h, footer |-> f, modules |-> m] :
        p \in {<<>>, [margin |-> 10, orientation |-> "landscape"]},
        h \in NotebookHeaderConfigs,
        f \in {<<>>, [height |-> 30, review_boxes |-> ThreeLabels]},
        m \in {<<>>} \cup {[i \in 1..n |-> c] : n \in 1..MaxModules, c \in NotebookPageModules}}

InitNotebook ==
    /\ pc = "nb_start"
    /\ inp \in NotebookConfigs \cup {Malformed}
    /\ canvas = <<>>
    /\ calls = <<>>
    /\ fillColor = "black"
    /\ page_index = 0
    /\ cursor_y = 0
    /\ mod_index = 0
    /\ newPages = 0
    /\ saved = 0
    /\ doc = <<>>
    /\ stdout = <<>>
    /\ exit_code = -1
    /\ rule_band = 0
    /\ rule_y = 0
    /\ cell_index = 0
    /\ cell_defaults = <<>>
    /\ y_pos = 0
    /\ row_count = 0

NextNotebook ==
    \/ notebook_open
    \/ notebook_header
    \/ notebook_quote
    \/ notebook_module
    \/ notebook_footer
    \/ notebook_save

SpecNotebook == InitNotebook /\ [][NextNotebook]_vars

(***************************************************************************)
(* Both generators: a run of NotebookGenerator.generate or of              *)
(* generate_notebook                                                       *)
(***************************************************************************)
InitGenerators == Init \/ InitNotebook

NextGenerators == Next \/ NextNotebook

SpecGenerators == InitGenerators /\ [][NextGenerators]_vars

(***************************************************************************)
(* Page size resolution: NotebookGenerator.generate (Cornell_gen_1102.py)  *)
(* and MatrixNotebookGenerator.generate (Matrix_gen.py)                    *)
(***************************************************************************)
\* size names of the page size runs: the table's, and two that are not in it
SizeNames == DOMAIN PAPER_SIZES \cup {"Letter", "a4"}

Orientations == {"portrait", "landscape", "sideways"}

PageFormats ==
    {<<>>} \cup {[size |-> s] : s \in SizeNames} \cup {[orientation |-> o] : o \in Orientations}
    \cup {[size |-> s, orientation |-> o] : s \in SizeNames, o \in Orientations}

InitPageSize ==
    /\ pc = "page_size"
    /\ inp \in {[path |-> p, page_format |-> f] : p \in {"cornell", "matrix"}, f \in PageFormats}
    /\ canvas = <<>>
    /\ calls = <<>>
    /\ fillColor = "black"
    /\ page_index = 0
    /\ cursor_y = 0
    /\ mod_index = 0
    /\ newPages = 0
    /\ saved = 0
    /\ doc = <<>>
    /\ stdout = <<>>
    /\ exit_code = -1
    /\ rule_band = 0
    /\ rule_y = 0
    /\ cell_index = 0
    /\ cell_defaults = <<>>
    /\ y_pos = 0
    /\ row_count = 0

\* W, H = landscape(page_size) or portrait(page_size); the page is given (W, H)
PageSizeReturn(size) ==
    /\ calls' = <<Call("setPageSize", "page", 0, 0, size[1], size[2])>>
    /\ pc' = "page_size_done"
    /\ UNCHANGED <<y_pos, row_count, cell_index, cell_defaults, rule_band, rule_y, exit_code, stdout, inp, canvas, fillColor, page_index, cursor_y, mod_index, newPages, saved, doc>>

\* NotebookGenerator.generate: c.setPageSize((W, H))
generate_page_size ==
    /\ pc = "page_size" /\ inp.path = "cornell"
    /\ PageSizeReturn(PageSize(Get(inp, "page_format", <<>>)))

\* MatrixNotebookGenerator.generate: canvas.Canvas(output, pagesize=(W, H))
matrix_page_size ==
    /\ pc = "page_size" /\ inp.path = "matrix"
    /\ PageSizeReturn(PageSize(Get(inp, "page_format", <<>>)))

NextPageSize ==
    \/ generate_page_size
    \/ matrix_page_size

SpecPageSize == InitPageSize /\ [][NextPageSize]_vars

(***************************************************************************)
(* The practice sheet (Lianxiben.py).  Its lengths are in millimetres and  *)
(* whole or half millimetres throughout; here they are integers in half    *)
(* millimetres.  The page, the margins and the grid configuration are the  *)
(* script's parameters.                                                    *)
(***************************************************************************)
\* n millimetres
Mm(n) == 2 * n

\* A4_w_mm, binding_width, left_margin, right_margin, num_content_cols
A4_w_mm == Mm(297)

binding_width == Mm(15)

left_margin == Mm(6)

right_margin == Mm(0)

num_content_cols == 6

\* grid_configs: upper_h, middle_h, lower_h, intercell_gap of the three
\* notebook types
grid_configs ==
    {[upper_h |-> 6, middle_h |-> 10, lower_h |-> 6, intercell_gap |-> 4],
     [upper_h |-> 5, middle_h |-> 8, lower_h |-> 5, intercell_gap |-> 4],
     [upper_h |-> 4, middle_h |-> 6, lower_h |-> 4, intercell_gap |-> 0]}

\* y_pos = line4_y - intercell_gap
NextRowTopMutNoGap(line4_y, intercell_gap) == line4_y

NextRowTop(line4_y, intercell_gap) == line4_y - intercell_gap

\* the margins balanced, and what follows from them
Sheet(p) ==
    LET A4_h_mm == Mm(p.A4_h_mm)
        upper_h == Mm(p.upper_h)
        middle_h == Mm(p.middle_h)
        lower_h == Mm(p.lower_h)
        intercell_gap == Mm(p.intercell_gap)
        cell_pitch == upper_h + middle_h + lower_h + intercell_gap
        initial_top_margin == Mm(p.top_margin)
        initial_bottom_margin == Mm(p.bottom_margin)
        content_height == A4_h_mm - initial_top_margin - initial_bottom_margin
        full_cells == content_height \div cell_pitch
        used_height == full_cells * cell_pitch
        remaining_space == content_height - used_height
        top_margin == initial_top_margin + (remaining_space \div 2)
        bottom_margin == initial_bottom_margin + (remaining_space \div 2)
        usable_width == A4_w_mm - binding_width - left_margin - right_margin
        col_width == usable_width \div num_content_cols
    IN  [A4_h_mm |-> A4_h_mm, upper_h |-> upper_h, middle_h |-> middle_h, lower_h |-> lower_h,
         intercell_gap |-> intercell_gap, cell_pitch |-> cell_pitch,
         content_height |-> content_height, full_cells |-> full_cells,
         top_margin |-> top_margin, bottom_margin |-> bottom_margin,
         col_width |-> col_width,
         start_y |-> A4_h_mm - top_margin, end_y |-> bottom_margin,
         x_content_left |-> binding_width + left_margin,
         x_content_right |-> binding_width + left_margin + num_content_cols * col_width]

\* ax.text(x, y, ...): the anchor
Text(role, x, y) ==
    [kind |-> "text", role |-> role, x1 |-> x, y1 |-> y, x2 |-> x, y2 |-> y, r |-> 0]

\* the binding line, the column separators and the outer border
SheetFrame(S) ==
    <<Line("binding", binding_width, 0, binding_width, S.A4_h_mm)>>
    \o [i \in 1..(num_content_cols - 1) |->
          Line("separator", binding_width + left_margin + i * S.col_width, 0,
               binding_width + left_margin + i * S.col_width, S.A4_h_mm)]
    \o <<Line("border", 0, 0, A4_w_mm, 0),
         Line("border", 0, S.A4_h_mm, A4_w_mm, S.A4_h_mm),
         Line("border", 0, 0, 0, S.A4_h_mm),
         Line("border", A4_w_mm, 0, A4_w_mm, S.A4_h_mm)>>

\* the four lines of the row whose top is at y
SheetRow(S, y) ==
    <<Line("line1", S.x_content_left, y, S.x_content_right, y),
      Line("line2", S.x_content_left, y - S.upper_h, S.x_content_right, y - S.upper_h),
      Line("line3", S.x_content_left, y - S.upper_h - S.middle_h,
           S.x_content_right, y - S.upper_h - S.middle_h),
      Line("line4", S.x_content_left, y - S.upper_h - S.middle_h - S.lower_h,
           S.x_content_right, y - S.upper_h - S.middle_h - S.lower_h)>>

\* the content's side lines, the column titles and the binding label
SheetTitles(S) ==
    <<Line("content_side", S.x_content_left, 0, S.x_content_left, S.A4_h_mm),
      Line("content_side", S.x_content_right, 0, S.x_content_right, S.A4_h_mm)>>
    \o [i \in 1..num_content_cols |->
          Text("title", binding_width + left_margin + (i - 1) * S.col_width + (S.col_width \div 2),
               S.A4_h_mm - S.top_margin + 3)]
    \o <<Text("binding_label", binding_width \div 2, S.A4_h_mm - S.top_margin + 3)>>

\* page heights of the sheet runs, in millimetres: A4 landscape, and pages
\* on which few rows or none fit
SheetHeights == {210, 59, 31, 17, 10}

SheetInputs ==
    {[A4_h_mm |-> h, top_margin |-> t, bottom_margin |-> b,
      upper_h |-> g.upper_h, middle_h |-> g.middle_h, lower_h |-> g.lower_h,
      intercell_gap |-> g.intercell_gap] :
        h \in SheetHeights, t \in {3, 0}, b \in {0, 4}, g \in grid_configs}

InitSheet ==
    /\ pc = "sheet"
    /\ inp \in SheetInputs
    /\ canvas = <<>>
    /\ calls = <<>>
    /\ fillColor = "black"
    /\ page_index = 0
    /\ cursor_y = 0
    /\ mod_index = 0
    /\ newPages = 0
    /\ saved = 0
    /\ doc = <<>>
    /\ stdout = <<>>
    /\ exit_code = -1
    /\ rule_band = 0
    /\ rule_y = 0
    /\ cell_index = 0
    /\ cell_defaults = <<>>
    /\ y_pos = 0
    /\ row_count = 0

\* the frame is drawn; y_pos = start_y; row_count = 0;
\* if y_pos - cell_pitch >= end_y: the loop is entered
sheet_frame ==
    /\ pc = "sheet"
    /\ canvas' = canvas \o SheetFrame(Sheet(inp))
    /\ y_pos' = Sheet(inp).start_y
    /\ row_count' = 0
    /\ pc' = IF Sheet(inp).start_y - Sheet(inp).cell_pitch >= Sheet(inp).end_y
             THEN "rows" ELSE "titles"
    /\ UNCHANGED <<inp, calls, fillColor, page_index, cursor_y, mod_index, newPages, saved, doc,
                   stdout, exit_code, rule_band, rule_y, cell_index, cell_defaults>>

\* one iteration that draws: line4_y >= end_y
sheet_row ==
    /\ pc = "rows"
    /\ LET S == Sheet(inp)
           line4_y == y_pos - S.upper_h - S.middle_h - S.lower_h
       IN  /\ line4_y >= S.end_y
           /\ canvas' = canvas \o SheetRow(S, y_pos)
           /\ y_pos' = NextRowTop(line4_y, S.intercell_gap)
    /\ row_count' = row_count + 1
    /\ UNCHANGED <<inp, pc, calls, fillColor, page_index, cursor_y, mod_index, newPages, saved,
                   doc, stdout, exit_code, rule_band, rule_y, cell_index, cell_defaults>>

\* if line4_y < end_y: break
sheet_break ==
    /\ pc = "rows"
    /\ y_pos - Sheet(inp).upper_h - Sheet(inp).middle_h - Sheet(inp).lower_h < Sheet(inp).end_y
    /\ pc' = "titles"
    /\ UNCHANGED <<inp, canvas, calls, fillColor, page_index, cursor_y, mod_index, newPages,
                   saved, doc, stdout, exit_code, rule_band, rule_y, cell_index, cell_defaults,
                   y_pos, row_count>>

\* the side lines and the titles; plt.savefig twice
sheet_save ==
    /\ pc = "titles"
    /\ canvas' = canvas \o SheetTitles(Sheet(inp))
    /\ saved' = saved + 2
    /\ pc' = "sheet_done"
    /\ UNCHANGED <<inp, calls, fillColor, page_index, cursor_y, mod_index, newPages, doc,
                   stdout, exit_code, rule_band, rule_y, cell_index, cell_defaults,
                   y_pos, row_count>>

NextSheet ==
    \/ sheet_frame
    \/ sheet_row
    \/ sheet_break
    \/ sheet_save

\* the interpreter keeps executing the script
SpecSheet == InitSheet /\ [][NextSheet]_vars /\ WF_vars(NextSheet)

(***************************************************************************)
(* The three scripts run from the command line: the "__main__" block of    *)
(* Cornell_gen_1102.py, Notebook_gen.py and Matrix_gen.py.  sys.argv is    *)
(* the script's name followed by the arguments; a configuration file is    *)
(* named by its content.                                                   *)
(***************************************************************************)
Scripts == {"Cornell_gen_1102.py", "Notebook_gen.py", "Matrix_gen.py"}

\* the message of print(...) before sys.exit(1)
Usage(script) ==
    CASE script = "Cornell_gen_1102.py" -> "Usage: python Cornell_gen_1102.py config.json"
      [] script = "Notebook_gen.py" -> "Usage: python notebook_generator.py config.json"
      [] script = "Matrix_gen.py" -> "Usage: python Matrix_gen.py Matrix_cfg.json"

\* where the script's generator starts
Entry(script) ==
    CASE script = "Cornell_gen_1102.py" -> "start"
      [] script = "Notebook_gen.py" -> "nb_start"
      [] script = "Matrix_gen.py" -> "matrix_start"

\* if len(sys.argv) < 2
NoArgumentMutNever(argv) == FALSE

NoArgument(argv) == Len(argv) < 2

\* the exceptions a run can end with
Exceptions == {"JSONDecodeError", "KeyError", "TypeError", "ZeroDivisionError", "IndexError"}

\* if len(sys.argv) < 2: print(usage); sys.exit(1); otherwise the generator
\* is given sys.argv[1]
Main(script) ==
    /\ pc = "main" /\ inp.script = script
    /\ IF NoArgument(inp.argv)
       THEN /\ stdout' = Append(stdout, Usage(script))
            /\ exit_code' = 1
            /\ pc' = "exit"
            /\ UNCHANGED inp
       ELSE IF Len(inp.argv) >= 2
       THEN /\ inp' = inp.argv[2]
            /\ pc' = Entry(script)
            /\ UNCHANGED <<stdout, exit_code>>
       ELSE /\ pc' = "IndexError"        \* sys.argv[1]
            /\ UNCHANGED <<inp, stdout, exit_code>>
    /\ UNCHANGED <<y_pos, row_count, canvas, calls, fillColor, page_index, cursor_y, mod_index, newPages, saved,
                   doc, rule_band, rule_y, cell_index, cell_defaults>>

main_cornell == Main("Cornell_gen_1102.py")

main_notebook == Main("Notebook_gen.py")

main_matrix == Main("Matrix_gen.py")

\* the generator returned: the script ends
main_return ==
    /\ pc = "done"
    /\ pc' = "exit"
    /\ exit_code' = 0
    /\ UNCHANGED <<y_pos, row_count, inp, stdout, canvas, calls, fillColor, page_index, cursor_y, mod_index,
                   newPages, saved, doc, rule_band, rule_y, cell_index, cell_defaults>>

\* an exception nobody catches ends the script with status 1
main_raise ==
    /\ pc \in Exceptions
    /\ pc' = "exit"
    /\ exit_code' = 1
    /\ UNCHANGED <<y_pos, row_count, inp, stdout, canvas, calls, fillColor, page_index, cursor_y, mod_index,
                   newPages, saved, doc, rule_band, rule_y, cell_index, cell_defaults>>

\* the command lines: no argument, a configuration file, a configuration
\* file and one more argument
CommandLines ==
    {[script |-> s, argv |-> <<s>>] : s \in Scripts}
    \cup {[script |-> "Cornell_gen_1102.py", argv |-> <<"Cornell_gen_1102.py", cfg>>] :
            cfg \in MixedDocs \cup {Malformed}}
    \cup {[script |-> "Notebook_gen.py", argv |-> <<"Notebook_gen.py", cfg>>] :
            cfg \in NotebookConfigs \cup {Malformed}}
    \cup {[script |-> "Matrix_gen.py", argv |-> <<"Matrix_gen.py", cfg>>] :
            cfg \in MatrixConfigs \cup {Malformed}}
    \cup {[script |-> s, argv |-> <<s, Malformed, "more">>] : s \in Scripts}

InitMain ==
    /\ pc = "main"
    /\ inp \in CommandLines
    /\ canvas = <<>>
    /\ calls = <<>>
    /\ fillColor = "black"
    /\ page_index = 0
    /\ cursor_y = 0
    /\ mod_index = 0
    /\ newPages = 0
    /\ saved = 0
    /\ doc = <<>>
    /\ stdout = <<>>
    /\ exit_code = -1
    /\ rule_band = 0
    /\ rule_y = 0
    /\ cell_index = 0
    /\ cell_defaults = <<>>
    /\ y_pos = 0
    /\ row_count = 0

NextMain ==
    \/ main_cornell
    \/ main_notebook
    \/ main_matrix
    \/ main_return
    \/ main_raise
    \/ Next
    \/ NextNotebook
    \/ NextMatrix

SpecMain == InitMain /\ [][NextMain]_vars

(***************************************************************************)
(* Claims about the grid generators (SpecGrid)                             *)
(***************************************************************************)
GridDone == pc = "grid_done"

\* the coordinates of p (a dot's centre) lie in [x, x + width] x [y - height, y]
CoordsInside(p, x, y, width, height) ==
    /\ x <= p.x1 /\ p.x1 <= x + width
    /\ x <= p.x2 /\ p.x2 <= x + width
    /\ y - height <= p.y1 /\ p.y1 <= y
    /\ y - height <= p.y2 /\ p.y2 <= y

\* all of p, a dot's disc included, lies in [x, x + width] x [y - height, y]
ExtentInside(p, x, y, width, height) ==
    /\ x <= Left(p) /\ Right(p) <= x + width
    /\ y - height <= Bottom(p) /\ Top(p) <= y

\* C1 (as claimed): a region of width 0 or height 0 gets no primitive from
\* any of the five grid generators.
C1_DegenerateRegionDrawsNothing ==
    (GridDone /\ (inp.width = 0 \/ inp.height = 0)) => canvas = <<>>

\* C2 (as claimed): for a region of positive width and height and a positive
\* spacing, every primitive of every grid generator lies inside the region.
C2_PrimitivesInsideRegion ==
    (GridDone /\ inp.width > 0 /\ inp.height > 0) =>
        \A p \in Range(canvas) : ExtentInside(p, inp.x, inp.y, inp.width, inp.height)

\* C2 (amended): for a region of positive width and height and a positive
\* spacing, every line and rectangle of every grid generator lies inside the
\* region and every dot is centred inside it; the unit that would cross the
\* far edge is not drawn.
C2_CoordinatesInsideRegion ==
    (GridDone /\ inp.width > 0 /\ inp.height > 0) =>
        \A p \in Range(canvas) :
            /\ CoordsInside(p, inp.x, inp.y, inp.width, inp.height)
            /\ p.kind # "circle" => ExtentInside(p, inp.x, inp.y, inp.width, inp.height)

\* a four-line grid was drawn on a region that ends inside a group: a partial
\* group was left out
C2_Witness ==
    /\ GridDone /\ inp.style = "four_line_three_grid"
    /\ inp.width > 0 /\ inp.height > 0
    /\ inp.height % Sum3(inp.row_heights) # 0
    /\ canvas # <<>>

\* C3: the four-line-three-grid generator draws exactly n groups of 4
\* horizontal lines, top-down, where n is the number of whole groups that fit
\* the height (n * groupHeight <= height < (n + 1) * groupHeight); for
\* height = k * groupHeight that is k groups and no partial one.
C3_FourLineGroups ==
    (GridDone /\ inp.style = "four_line_three_grid" /\ inp.height >= 0) =>
        LET G == Sum3(inp.row_heights)
            rh == inp.row_heights
        IN  \E n \in 0..(inp.height + 1) :
                /\ n * G <= inp.height /\ inp.height < (n + 1) * G
                /\ Len(canvas) = 4 * n
                /\ \A i \in 0..(n - 1) :
                    LET top == inp.y - i * G
                        at(yy) == Line("grid", inp.x, yy, inp.x + inp.width, yy)
                    IN  /\ canvas[4 * i + 1] = at(top)
                        /\ canvas[4 * i + 2] = at(top - rh[1])
                        /\ canvas[4 * i + 3] = at(top - rh[1] - rh[2])
                        /\ canvas[4 * i + 4] = at(top - rh[1] - rh[2] - rh[3])

\* a region of exactly three groups got exactly three groups
C3_Witness ==
    /\ GridDone /\ inp.style = "four_line_three_grid"
    /\ inp.height = 3 * Sum3(inp.row_heights)
    /\ Len(canvas) = 12

(***************************************************************************)
(* Claims about the Cornell module (SpecModule)                            *)
(***************************************************************************)
ModuleDone == pc = "module_done"

\* the heights the run configures, in units
ConfiguredThemeH ==
    IF inp.path = "cornell"
    THEN Get(inp.config, "theme_height_mm", 0) * 720
    ELSE Get(inp.config, "theme_height", 14) * 254

ConfiguredSummaryH ==
    IF inp.path = "cornell"
    THEN Get(inp.config, "summary_height_mm", 0) * 720
    ELSE Get(inp.config, "summary_height", 14) * 254

ConfiguredRatio == Get(inp.config, "keyword_width_ratio", [num |-> 3, den |-> 10])

RoleCount(role) == Cardinality({i \in DOMAIN canvas : canvas[i].role = role})

\* C4 (as claimed): in every render path of a Cornell module, a theme height
\* of 0 means no title divider and no title label, and a summary height of 0
\* means no summary divider and no summary label.
C4_ZeroBandDrawsNoDividerNoLabel ==
    ModuleDone =>
        /\ ConfiguredThemeH = 0 => RoleCount("title_divider") = 0 /\ RoleCount("title_label") = 0
        /\ ConfiguredSummaryH = 0 => RoleCount("summary_divider") = 0 /\ RoleCount("summary_label") = 0

\* C5: whatever the theme and summary heights, a drawn module has exactly one
\* keyword/notes divider: the vertical line at x + width * keyword_width_ratio
\* from y - theme_h down to y - height + summary_h.
C5_KeywordDividerOnceExact ==
    ModuleDone =>
        /\ RoleCount("keyword_divider") = 1
        /\ \A i \in DOMAIN canvas :
             canvas[i].role = "keyword_divider" =>
                LET kx == inp.x + (inp.width * ConfiguredRatio.num) \div ConfiguredRatio.den
                IN  /\ canvas[i].kind = "line"
                    /\ canvas[i].x1 = kx /\ canvas[i].x2 = kx
                    /\ canvas[i].y1 = inp.y - ConfiguredThemeH
                    /\ canvas[i].y2 = inp.y - inp.height + ConfiguredSummaryH

\* a module with no title band and a summary band was drawn in full
C5_Witness ==
    /\ ModuleDone /\ inp.path = "cornell"
    /\ ConfiguredThemeH = 0 /\ ConfiguredSummaryH > 0
    /\ inp.height > ConfiguredSummaryH
    /\ RoleCount("keyword_divider") = 1

\* the rectangles a drawn module handed to the grid generator for one band
BandCalls(band) == {calls[i] : i \in {j \in DOMAIN calls : calls[j].role = band}}

\* C9 (as claimed): the title, content and summary bands of a module lie
\* inside the module rectangle, are contiguous and do not overlap (their
\* heights add up to the module height, the content height is >= 0), and the
\* keyword and notes columns split the content band (their widths add up to
\* the module width, both >= 0).
C9_BandsPartitionModule ==
    (ModuleDone /\ inp.path = "cornell" /\ calls # <<>>) =>
        \A t \in BandCalls("grid_title"), k \in BandCalls("grid_keywords"),
           n \in BandCalls("grid_notes") :
            LET content_h == inp.height - ConfiguredThemeH - ConfiguredSummaryH
                summary_h == ConfiguredSummaryH
            IN  /\ content_h >= 0
                \* title band: the top theme_h of the module
                /\ t.x = inp.x /\ t.width = inp.width
                /\ t.y = inp.y /\ t.height = ConfiguredThemeH
                \* content band, right below the title band
                /\ k.y = t.y - t.height /\ n.y = k.y
                /\ k.height = content_h /\ n.height = content_h
                /\ k.x = inp.x /\ n.x = k.x + k.width
                /\ k.width >= 0 /\ n.width >= 0 /\ k.width + n.width = inp.width
                \* summary band, right below the content band, down to the bottom
                /\ \A sm \in BandCalls("grid_summary") :
                     /\ sm.x = inp.x /\ sm.width = inp.width
                     /\ sm.y <= k.y - k.height
                     /\ sm.y - sm.height >= inp.y - inp.height
                /\ \E sm \in BandCalls("grid_summary") : sm.y = k.y - k.height
                /\ \E sm \in BandCalls("grid_summary") : sm.y - sm.height = inp.y - inp.height

(***************************************************************************)
(* Claims about the page (Spec)                                            *)
(***************************************************************************)
\* the page's header, quote box, modules and footer have all been drawn
PageDrawn == pc = "page_end"

\* the rectangles drawn for the page's sections, and the order of the sections
SectionRank(role) ==
    CASE role \in {"header_border", "header_field"} -> 1
      [] role \in {"quote_border", "quote_box"} -> 2
      [] role = "module_border" -> 3
      [] role = "footer_border" -> 4
      [] OTHER -> 0

IsSectionRect(p) == p.kind = "rect" /\ SectionRank(p.role) > 0

\* C6 (as claimed): on every drawn page the regions of the header, the quote
\* box, the modules and the footer lie between the top and bottom margins,
\* are stacked top-down, and no two of them overlap.
C6_SectionsStackedNoOverlap ==
    PageDrawn =>
        /\ \A i \in DOMAIN canvas :
             IsSectionRect(canvas[i]) =>
                /\ Page.bottom_margin <= Bottom(canvas[i])
                /\ Top(canvas[i]) <= Page.H - Page.top_margin
        /\ \A i, j \in DOMAIN canvas :
             (/\ i < j
              /\ IsSectionRect(canvas[i]) /\ IsSectionRect(canvas[j])
              /\ \/ SectionRank(canvas[i].role) < SectionRank(canvas[j].role)
                 \/ canvas[i].role = "module_border" /\ canvas[j].role = "module_border")
             => Bottom(canvas[i]) >= Top(canvas[j])

\* C7 (as claimed): the header's border rectangle and every header field box
\* lie in the band of height header_h right below the top margin.
C7_HeaderInsideItsBand ==
    (pc \in {"quote", "modules", "page_end"}) =>
        \A p \in Range(canvas) :
            (p.kind = "rect" /\ p.role \in {"header_border", "header_field"}) =>
                /\ Page.H - Page.top_margin - Page.header_h <= Bottom(p)
                /\ Top(p) <= Page.H - Page.top_margin

\* the module rectangles generate() handed to the module renderer on this page
ModuleCalls == {i \in DOMAIN calls : calls[i].fn = "module"}

\* C8: with N >= 1 modules every module gets the same height, the largest
\* whole multiple of the page's line step that does not exceed usable_h / N:
\* N * module_h <= usable_h, and the leftover, less than N * step, goes to no
\* module (the modules are stacked without gaps from the top).
C8_ModuleHeightIsStepMultiple ==
    \A i \in ModuleCalls :
        LET N == Len(Page.modules)
            mh == calls[i].height
        IN  /\ mh % Page.step = 0
            /\ N * mh <= Page.usable_h
            /\ Page.usable_h - N * mh < N * Page.step
            /\ \A j \in ModuleCalls :
                 /\ calls[j].height = mh
                 /\ (j < i /\ Cardinality({k \in ModuleCalls : j < k /\ k < i}) = 0)
                        => calls[i].y = calls[j].y - mh

\* both modules of a page were drawn and some of the usable height is left over
C8_Witness ==
    /\ PageDrawn
    /\ Len(Page.modules) = 2 /\ Cardinality(ModuleCalls) = 2
    /\ \E i \in ModuleCalls : calls[i].height > 0 /\ Page.usable_h - 2 * calls[i].height > 0

(***************************************************************************)
(* Claims about the footer (SpecFooter)                                    *)
(***************************************************************************)
FooterDone == pc = "footer_done"

\* the review boxes of the run, in order
ReviewBoxes == Get(inp.config, "review_boxes", <<>>)

\* the uniform box width w of the run: the even share of the footer's width,
\* or the configured width (15 points by default and for "auto")
UniformBoxWidth ==
    IF inp.path = "cornell"
    THEN inp.width \div Len(ReviewBoxes)
    ELSE LET bw == Get(inp.config, "review_box_width", [auto |-> FALSE, w |-> 15])
         IN  IF bw.auto THEN 15 * 254 ELSE bw.w * 254

\* no label needs more than the uniform width
NoLabelForcesWider ==
    \A i \in DOMAIN ReviewBoxes :
        ReviewBoxes[i].ws[1]
          + 2 * 254 * Get(inp.config, "review_box_text_padding", IF inp.path = "cornell" THEN 0 ELSE 2)
        <= UniformBoxWidth

\* the boxes drawn, in order: calls[i] for the i-th label
BoxCount == Len(calls)

RECURSIVE SumWidths(_, _)
SumWidths(cs, i) == IF i > Len(cs) THEN 0 ELSE cs[i].width + SumWidths(cs, i + 1)

\* the padding of the review boxes of a FooterRenderer.draw run, in model units
ReviewBoxPadding == 254 * Get(inp.config, "review_box_text_padding", 0)

\* C11: in FooterRenderer.draw, for N >= 1 review-box labels, each box has
\* width max(footer_width / N, text_width + 2 * padding), the boxes are packed
\* from the footer's left edge using their actual widths, and the sum of the
\* drawn widths is at least the footer's nominal width.
C11_FooterBoxesNeverShrunk ==
    (FooterDone /\ inp.path = "cornell" /\ Len(ReviewBoxes) >= 1) =>
        LET N == Len(ReviewBoxes)
            share == inp.width \div N
            needed(i) == ReviewBoxes[i].ws[1] + 2 * ReviewBoxPadding
        IN  /\ BoxCount = N
            /\ \A i \in 1..N :
                  calls[i].width = IF share >= needed(i) THEN share ELSE needed(i)
            /\ calls[1].x = inp.x
            /\ \A i \in 1..(N - 1) : calls[i + 1].x = calls[i].x + calls[i].width
            /\ SumWidths(calls, 1) >= inp.width

\* three boxes, one of them forced wider than the even share, so that the
\* boxes run past the footer's right edge
C11_Witness ==
    /\ FooterDone /\ inp.path = "cornell"
    /\ BoxCount = 3
    /\ \E i \in 1..3 : calls[i].width > inp.width \div 3
    /\ \E i \in 1..3 : calls[i].width = inp.width \div 3
    /\ SumWidths(calls, 1) > inp.width

(***************************************************************************)
(* Claims about the components (SpecComponent)                             *)
(***************************************************************************)
HeaderDone == pc = "component_done" /\ inp.kind = "header"

\* the fields of the header run
Fields == inp.config.fields

\* field_margin and field_spacing of the header run, in model units; the
\* defaults are 0 in HeaderRenderer.draw and 5 in draw_header
FieldMargin == 254 * Get(inp.config, "field_margin", IF inp.path = "cornell" THEN 0 ELSE 5)

FieldSpacing == 254 * Get(inp.config, "field_spacing", IF inp.path = "cornell" THEN 0 ELSE 5)

\* the even share of the header's width
UniformShare ==
    (inp.width - 2 * FieldMargin - (Len(Fields) - 1) * FieldSpacing) \div Len(Fields)

\* the width of the text drawn in field i: the label, followed by a colon in
\* draw_header
FieldTextWidth(i) ==
    Fields[i].label.ws[1] + (IF inp.path = "cornell" THEN 0 ELSE 4 * 254)

\* C12: each header field's box width is max(uniformShare, text_width + 2 *
\* padding) with uniformShare = (header_width - 2 * field_margin - (n - 1) *
\* field_spacing) / n, its height is max(20, text_height + 2 *
\* vertical_padding), and field i+1 starts exactly field_spacing to the right
\* of field i's right edge; no field is narrower than the uniform share.
C12_HeaderFieldSizes ==
    (HeaderDone /\ Len(Fields) >= 1) =>
        LET n == Len(Fields)
            needed(i) == FieldTextWidth(i) + 2 * 254 * Get(Fields[i], "text_padding", 2)
            tall(i) == 12 * 254 + 2 * 254 * Get(Fields[i], "vertical_padding", 3)
        IN  /\ Len(calls) = n
            /\ \A i \in 1..n :
                  /\ calls[i].width = IF UniformShare >= needed(i) THEN UniformShare ELSE needed(i)
                  /\ calls[i].height = IF 20 * 254 >= tall(i) THEN 20 * 254 ELSE tall(i)
                  /\ calls[i].width >= UniformShare
            /\ calls[1].x = inp.x + FieldMargin
            /\ \A i \in 1..(n - 1) :
                  calls[i + 1].x = calls[i].x + calls[i].width + FieldSpacing

\* three fields with a positive spacing, the first of the uniform width and
\* a later one widened by its label and raised by its vertical padding
C12_Witness ==
    /\ HeaderDone /\ Len(Fields) = 3 /\ Len(calls) = 3
    /\ FieldSpacing > 0
    /\ calls[1].width = UniformShare
    /\ calls[2].width > UniformShare
    /\ calls[2].height > 20 * 254
    /\ calls[3].x = calls[2].x + calls[2].width + FieldSpacing

QuoteDone == pc = "component_done" /\ inp.kind = "quote"

\* what the quote's text needs: text_height + 2 * vertical_padding; the
\* default vertical padding is 0 in QuoteBoxRenderer.draw and 3 in
\* draw_quote_box
QuoteTextNeeds ==
    12 * 254 + 2 * 254 * Get(inp.config.quote_box, "vertical_padding",
                             IF inp.path = "cornell" THEN 0 ELSE 3)

\* the rectangles drawn on the canvas
Rects == {i \in DOMAIN canvas : canvas[i].kind = "rect"}

\* C13: the quote box's drawn height is max(configured height, text_height +
\* 2 * vertical_padding): never smaller than the configured height and never
\* smaller than what the text needs.
C13_QuoteBoxHeight ==
    QuoteDone =>
        /\ Rects # {}
        /\ \A i \in Rects :
              LET drawn == canvas[i].y2 - canvas[i].y1
              IN  /\ drawn = IF inp.height >= QuoteTextNeeds THEN inp.height ELSE QuoteTextNeeds
                  /\ drawn >= inp.height
                  /\ drawn >= QuoteTextNeeds

\* a quote box with a positive configured height, raised to fit its text
C13_Witness ==
    /\ QuoteDone /\ inp.height > 0
    /\ \E i \in Rects : canvas[i].y2 - canvas[i].y1 > inp.height

TextBoxDone == pc = "component_done" /\ inp.kind = "text_box"

\* the strings drawn on the canvas
Strings == {i \in DOMAIN canvas : canvas[i].kind = "string"}

\* C14: for horizontal alignment "center" the text anchor x of the text box
\* renderers equals x + width/2 - text_width/2 for every value of
\* text_padding, and the text is drawn exactly once.
C14_CenterAnchor ==
    (TextBoxDone /\ inp.config.alignment = "center") =>
        /\ Cardinality(Strings) = 1
        /\ \A i \in Strings :
              canvas[i].x1 = inp.x + (inp.width \div 2) - (inp.config.text.ws[1] \div 2)

\* a centred text drawn in a box configured with a positive text padding
C14_Witness ==
    /\ TextBoxDone /\ inp.config.alignment = "center"
    /\ Get(inp.config, "text_padding", 0) = 9
    /\ \E i \in Strings : canvas[i].x1 = inp.x + (inp.width - inp.config.text.ws[1]) \div 2

(***************************************************************************)
(* The line_style fallback (SpecModule)                                    *)
(***************************************************************************)
\* the module's line_style is none of the five grid styles
UnknownLineStyle ==
    Get(inp.config, "line_style", "single_line")
        \notin {"four_line_three_grid", "single_line", "dotted", "english_grid", "tianzige"}

GridRoles == {"grid_notes", "grid_keywords", "grid_summary", "grid_title"}

IsNotGrid(p) == p.role \notin GridRoles

\* the same module drawn with a known style
WithKnownStyle ==
    LET known == [inp.config EXCEPT !["line_style"] = "single_line"]
    IN  IF inp.path = "cornell"
        THEN CornellModuleRendererDraw(inp.x, inp.y, inp.width, inp.height, known)
        ELSE NotebookDrawCornellModule(inp.x, inp.y, inp.width, inp.height, known)

\* C19: for a module whose line_style is not one of the five known grid
\* styles ("blank" and unrecognized values alike), no grid primitive is drawn
\* and no grid generator is called, no error is raised where a known style
\* raises none, and the outer border, the labels and the divider lines are
\* drawn exactly as for a known style.
C19_UnknownStyleDrawsNoGrid ==
    (pc # "module" /\ UnknownLineStyle /\ WithKnownStyle.err = "") =>
        /\ pc = "module_done"
        /\ \A i \in DOMAIN canvas : IsNotGrid(canvas[i])
        /\ calls = <<>>
        /\ canvas = SelectSeq(WithKnownStyle.canvas, IsNotGrid)

\* a module of an unrecognized style drawn with its border, a label and its
\* three dividers, where the known style draws grid lines
C19_Witness ==
    /\ pc = "module_done" /\ inp.path = "cornell"
    /\ Get(inp.config, "line_style", "single_line") = "hexagons"
    /\ RoleCount("module_border") = 1 /\ RoleCount("title_label") = 1
    /\ RoleCount("title_divider") = 1 /\ RoleCount("summary_divider") = 1
    /\ RoleCount("keyword_divider") = 1
    /\ Len(WithKnownStyle.canvas) > Len(canvas)

(***************************************************************************)
(* Page size resolution (SpecPageSize)                                     *)
(***************************************************************************)
PageSizeDone == pc = "page_size_done"

\* the table entry of the configured size name, A4 (210 mm x 297 mm) for a
\* name that is not in the table, in model units
SizeEntry ==
    LET name == Get(inp.page_format, "size", "A4")
    IN  IF name \in DOMAIN PAPER_SIZES
        THEN <<254 * PAPER_SIZES[name][1], 254 * PAPER_SIZES[name][2]>>
        ELSE <<210 * 720, 297 * 720>>

\* C20: the page size is resolved from the named-size table; a size name not
\* in the table yields the A4 dimensions without error; for orientation
\* "landscape" the page has the entry's width and height swapped (W > H), for
\* any other orientation it keeps the entry's width and height (W < H).
C20_PageSizeResolved ==
    /\ pc \in {"page_size", "page_size_done"}
    /\ PageSizeDone =>
          LET W == calls[1].width
              H == calls[1].height
          IN  IF Get(inp.page_format, "orientation", "portrait") = "landscape"
              THEN W = SizeEntry[2] /\ H = SizeEntry[1] /\ W > H
              ELSE W = SizeEntry[1] /\ H = SizeEntry[2] /\ W < H

\* an unrecognized size name resolved to a landscape A4 page
C20_Witness ==
    /\ PageSizeDone
    /\ Get(inp.page_format, "size", "A4") = "Letter"
    /\ Get(inp.page_format, "orientation", "portrait") = "landscape"
    /\ calls[1].width = 297 * 720 /\ calls[1].height = 210 * 720

(***************************************************************************)
(* Pages, errors and saving (Spec)                                         *)
(***************************************************************************)
\* the entries of the configured pages list; the configuration itself when
\* it has no pages list, or an empty one
PageEntries ==
    IF Has(inp, "pages") /\ Len(inp["pages"]) > 0 THEN inp["pages"] ELSE <<inp>>

\* the footer border of a page entry is among the primitives of a drawn page
DrawnFrom(page, entry) ==
    LET L == Layout(entry)
    IN  \E i \in DOMAIN page :
           /\ page[i].role = "footer_border"
           /\ page[i].x1 = L.left_margin /\ page[i].x2 = L.W - L.right_margin
           /\ page[i].y1 = L.bottom_margin /\ page[i].y2 = L.bottom_margin + L.footer_h

\* C15: for a pages list of n >= 1 entries the pages are drawn in list order,
\* a new page is started exactly once between consecutive entries (n - 1
\* times, never after the last), and the document is saved exactly once,
\* after the last page is drawn; a configuration without a pages list is
\* rendered as exactly one page.
C15_PagesInOrderSavedOnce ==
    LET n == Len(PageEntries)
    IN  /\ newPages = page_index
        /\ page_index <= n - 1
        /\ saved \in {0, 1}
        /\ Len(doc) = page_index + saved
        /\ \A k \in 1..Len(doc) : DrawnFrom(doc[k], PageEntries[k])
        /\ saved = 1 <=> pc = "done"
        /\ pc = "done" => newPages = n - 1 /\ Len(doc) = n
        /\ ~Has(inp, "pages") /\ pc = "done" => Len(doc) = 1 /\ newPages = 0

\* a document of two different pages, drawn in order, one new page started,
\* and saved
C15_Witness ==
    /\ pc = "done" /\ Has(inp, "pages") /\ Len(inp["pages"]) = 2
    /\ inp["pages"][1] # inp["pages"][2]
    /\ ~DrawnFrom(doc[1], inp["pages"][2])
    /\ DrawnFrom(doc[2], inp["pages"][2])
    /\ newPages = 1 /\ saved = 1

\* the exceptions a run can abort with
Errors == {"JSONDecodeError", "KeyError", "TypeError"}

\* the fields of a page entry's header, and its quote box
EntryFields(entry) == Get(Get(entry, "header", <<>>), "fields", <<>>)

EntryQuoteBox(entry) == Get(Get(entry, "quote", <<>>), "quote_box", <<>>)

\* a header field of the entry has no label; the entry's quote box has none
HeaderLabelMissing(entry) ==
    \E i \in DOMAIN EntryFields(entry) : ~Has(EntryFields(entry)[i], "label")

QuoteLabelMissing(entry) ==
    DOMAIN EntryQuoteBox(entry) # {} /\ ~Has(EntryQuoteBox(entry), "label")

\* C16 (as claimed): omitting an optional configuration key never raises an
\* error: a run whose header fields and quote boxes all have their label
\* (the required key) completes without an exception.
C16_OmittedOptionalKeyNeverRaises ==
    (/\ ~Has(inp, "malformed")
     /\ \A k \in DOMAIN PageEntries :
           ~HeaderLabelMissing(PageEntries[k]) /\ ~QuoteLabelMissing(PageEntries[k]))
    => pc \notin Errors

\* the page entry being drawn
CurrentEntry == PageEntries[page_index + 1]

HeaderRoles == {"header_border", "header_field", "header_field_text"}

\* the first field of the entry without a label
FirstUnlabelled(entry) ==
    CHOOSE i \in DOMAIN EntryFields(entry) :
        /\ ~Has(EntryFields(entry)[i], "label")
        /\ \A j \in 1..(i - 1) : Has(EntryFields(entry)[j], "label")

\* C17: a header field or quote box that lacks its label makes rendering fail
\* when that element is reached: the fields before it are drawn, no text is
\* drawn for it, and neither the later sections of the page (quote, modules,
\* footer) nor a later page are drawn, and nothing is saved.
C17_MissingLabelIsFatal ==
    (~Has(inp, "malformed") /\ pc # "start") =>
        /\ HeaderLabelMissing(CurrentEntry) =>
              /\ pc \in {"header", "KeyError"}
              /\ \A i \in DOMAIN canvas : canvas[i].role \in HeaderRoles
              /\ pc = "KeyError" =>
                    RoleCount("header_field_text") = FirstUnlabelled(CurrentEntry) - 1
              /\ saved = 0
        /\ (~HeaderLabelMissing(CurrentEntry) /\ QuoteLabelMissing(CurrentEntry)) =>
              /\ pc \in {"header", "quote", "KeyError"}
              /\ \A i \in DOMAIN canvas : canvas[i].role \in HeaderRoles
              /\ saved = 0

\* the second field of a header has no label: the first field was drawn and
\* the run ended with a KeyError
C17_Witness ==
    /\ pc = "KeyError"
    /\ HeaderLabelMissing(CurrentEntry)
    /\ FirstUnlabelled(CurrentEntry) = 2
    /\ RoleCount("header_field") = 1 /\ RoleCount("header_field_text") = 1

\* the configuration is one of generate_notebook
FromNotebook == Has(inp, "page")

\* a key without which a renderer raises is missing somewhere in the
\* configuration
KeyMissing ==
    IF FromNotebook
    THEN LET header == Get(inp, "header", <<>>)
             fields == Get(header, "fields", <<>>)
             quote == Get(header, "quote_box", <<>>)
         IN  \/ \E i \in DOMAIN fields : ~Has(fields[i], "label")
             \/ DOMAIN quote # {} /\ (~Has(quote, "label") \/ ~Has(quote, "height"))
    ELSE \E k \in DOMAIN PageEntries :
            \/ HeaderLabelMissing(PageEntries[k])
            \/ QuoteLabelMissing(PageEntries[k])
            \/ \E m \in DOMAIN Get(PageEntries[k], "modules", <<>>) :
                  ~Has(PageEntries[k]["modules"][m], "line_step_mm")

\* the page was drawn to its end: its footer is on it
PageComplete(page) == \E i \in DOMAIN page : page[i].role = "footer_border"

\* C18: a run that aborts with an error (malformed JSON, a missing key, a
\* failure on any page of a multi-page document) never saves the document
\* and takes no further step; save is invoked only after every configured
\* page has been drawn completely.
C18_NoSaveAfterError ==
    /\ [](/\ pc \in Errors => saved = 0
          /\ (Has(inp, "malformed") \/ KeyMissing) => saved = 0
          /\ saved >= 1 =>
                /\ pc = "done"
                /\ Len(doc) = IF FromNotebook THEN 1 ELSE Len(PageEntries)
                /\ \A k \in DOMAIN doc : PageComplete(doc[k]))
    /\ [][pc \notin Errors /\ (saved' # saved => pc \in {"page_end", "nb_page_end"})]_vars

\* a run failed on the second page of a document, after the first page was
\* drawn completely, and nothing was saved
C18_Witness ==
    /\ pc \in Errors /\ page_index = 1
    /\ Len(doc) = 1 /\ PageComplete(doc[1])
    /\ saved = 0

(***************************************************************************)
(* Determinism (SpecTwice)                                                 *)
(***************************************************************************)
\* both runs are over: doc holds the pages of the first run, then those of
\* the second
BothRunsDone == pc = "done" /\ saved = 2

GridOf(band) == {canvas[i] : i \in {j \in DOMAIN canvas : canvas[j].role = band}}

\* the primitive's points all have their y in [lo, hi]
BetweenY(p, lo, hi) == lo <= p.y1 /\ p.y1 <= hi /\ lo <= p.y2 /\ p.y2 <= hi

CornellDone == ModuleDone /\ inp.path = "cornell"

\* the content and summary bands' grids stay in their bands
C23_LowerBandsGridsInTheirBands ==
    CornellDone =>
        LET theme_h == Get(inp.config, "theme_height_mm", 0) * MM_TO_POINTS
            summary_h == Get(inp.config, "summary_height_mm", 0) * MM_TO_POINTS
        IN  /\ \A p \in GridOf("grid_keywords") \cup GridOf("grid_notes") :
                  BetweenY(p, inp.y - inp.height + summary_h, inp.y - theme_h)
            /\ \A p \in GridOf("grid_summary") :
                  BetweenY(p, inp.y - inp.height, inp.y - inp.height + summary_h)

\* C23: for every line style the grid primitives drawn for the title band
\* lie within the title band [y - theme_h, y], those for the keyword and
\* notes columns within the content band, and those for the summary within
\* the summary band [y - height, y - height + summary_h].
C23_BandGridsInTheirBands ==
    /\ C23_LowerBandsGridsInTheirBands
    /\ CornellDone =>
          \A p \in GridOf("grid_title") :
              BetweenY(p, inp.y - Get(inp.config, "theme_height_mm", 0) * MM_TO_POINTS, inp.y)

(***************************************************************************)
(* The rule lines of a page's modules (Spec)                               *)
(***************************************************************************)
\* the horizontal rule lines the modules' grids have drawn on the page
RuleLines ==
    {canvas[i] : i \in {j \in DOMAIN canvas :
                          /\ canvas[j].role \in GridRoles
                          /\ canvas[j].kind = "line"
                          /\ canvas[j].y1 = canvas[j].y2}}

\* the top of the page's first module
FirstModuleTop(L) == L.H - L.top_margin - L.header_h - L.quote_h

\* y is a whole number of line steps away from the top of the first module
OnPageGrid(L, yy) == L.step > 0 /\ (FirstModuleTop(L) - yy) % L.step = 0

SeveralSingleLine(L) ==
    /\ Len(L.modules) >= 2
    /\ \A i \in DOMAIN L.modules : Get(L.modules[i], "line_style", "single_line") = "single_line"

\* every module rules at the page's line step and its title and summary
\* bands are whole numbers of lines high
BandsOnStep(L) ==
    \A i \in DOMAIN L.modules :
        /\ Has(L.modules[i], "line_step_mm")
        /\ L.modules[i]["line_step_mm"] * MM_TO_POINTS = L.step
        /\ (Get(L.modules[i], "theme_height_mm", 0) * MM_TO_POINTS) % L.step = 0
        /\ (Get(L.modules[i], "summary_height_mm", 0) * MM_TO_POINTS) % L.step = 0

\* C24 as stated: on a page with several single_line modules every rule line
\* of every module lands on the grid of pitch line-step anchored at the top
\* of the first module.
C24_AllRuleLinesOnCommonGrid ==
    (PageDrawn /\ SeveralSingleLine(Page)) =>
        \A p \in RuleLines : OnPageGrid(Page, p.y1)

\* C24, amended: on a page with several single_line modules that rule at the
\* page's line step and whose title and summary heights are whole multiples
\* of it, every rule line of every module (title, keyword, notes and summary
\* bands) lands on one grid of pitch line-step anchored at the top of the
\* first module, across module boundaries too.
C24_AlignedModulesShareGrid ==
    (PageDrawn /\ SeveralSingleLine(Page) /\ BandsOnStep(Page)) =>
        \A p \in RuleLines : OnPageGrid(Page, p.y1)

\* a page of two such modules was drawn, with rule lines of the title, notes
\* and summary bands, some of them below the first module
C24_Witness ==
    /\ PageDrawn /\ SeveralSingleLine(Page) /\ BandsOnStep(Page)
    /\ \A band \in {"grid_title", "grid_notes", "grid_keywords", "grid_summary"} :
          \E p \in RuleLines : p.role = band
    /\ \E p \in RuleLines :
          p.y1 < FirstModuleTop(Page) - ModuleHeight(Page.usable_h, Page.step, Len(Page.modules))

(***************************************************************************)
(* The ruled lines and the dots of one region (SpecGrid)                   *)
(***************************************************************************)
\* ceil(a / b) for b > 0
CeilDiv(a, b) == (a + b - 1) \div b

SingleLineDone == GridDone /\ inp.style = "single_line"

\* C25: for a region with height > 0 and line step > 0 the single-ruled-line
\* generator draws lines exactly at y, y - step, y - 2*step, ... for the
\* positions strictly above y - height: the first line is on the top edge,
\* none is at or below the bottom edge, and there are ceil(height / step).
C25_SingleLinesFromTopEdge ==
    (SingleLineDone /\ inp.height > 0 /\ inp.spacing > 0) =>
        /\ Len(canvas) = CeilDiv(inp.height, inp.spacing)
        /\ \A k \in DOMAIN canvas :
              /\ canvas[k] = Line("grid", inp.x, inp.y - (k - 1) * inp.spacing,
                                  inp.x + inp.width, inp.y - (k - 1) * inp.spacing)
              /\ canvas[k].y1 > inp.y - inp.height
        /\ canvas[1].y1 = inp.y

\* a region whose height is a whole number of steps, and one whose height is
\* not, each ruled with more than one line
C25_Witness ==
    /\ SingleLineDone /\ inp.height > 0 /\ Len(canvas) >= 2
    /\ inp.height % inp.spacing = 0
    /\ canvas[Len(canvas)].y1 = inp.y - inp.height + inp.spacing

C25_WitnessPartialStep ==
    /\ SingleLineDone /\ inp.height > 0 /\ Len(canvas) >= 2
    /\ inp.height % inp.spacing # 0
    /\ Len(canvas) = (inp.height \div inp.spacing) + 1

DottedDone == GridDone /\ inp.style = "dotted"

\* C26: for a region with width >= 0, height >= 0 and spacing s > 0 the
\* dotted-grid generator draws exactly (floor(height/s) + 1) * (floor(width/s) + 1)
\* dots, one at each (x + col*s, y - row*s), so the last row or column is on
\* the bottom or right edge when that dimension is a multiple of s; the fill
\* colour is black on return.
C26_DotsAtEveryGridPoint ==
    (DottedDone /\ inp.width >= 0 /\ inp.height >= 0 /\ inp.spacing > 0) =>
        LET rows == (inp.height \div inp.spacing) + 1
            cols == (inp.width \div inp.spacing) + 1
        IN  /\ Len(canvas) = rows * cols
            /\ \A row \in 0..(rows - 1), col \in 0..(cols - 1) :
                  \E i \in DOMAIN canvas :
                      canvas[i] = Circle("grid", inp.x + col * inp.spacing,
                                         inp.y - row * inp.spacing, DotRadius)
            /\ inp.height % inp.spacing = 0 =>
                  \E i \in DOMAIN canvas : canvas[i].y1 = inp.y - inp.height
            /\ inp.width % inp.spacing = 0 =>
                  \E i \in DOMAIN canvas : canvas[i].x1 = inp.x + inp.width
            /\ fillColor = "black"

\* a region of several rows and columns of dots whose sides are multiples of
\* the spacing: a dot is on its bottom right corner
C26_Witness ==
    /\ DottedDone /\ inp.width > 0 /\ inp.height > 0
    /\ inp.height % inp.spacing = 0 /\ inp.width % inp.spacing = 0
    /\ Len(canvas) >= 6
    /\ \E i \in DOMAIN canvas :
          canvas[i].y1 = inp.y - inp.height /\ canvas[i].x1 = inp.x + inp.width
    /\ fillColor = "black"

(***************************************************************************)
(* Termination of the ruled-line loops (SpecLayout)                        *)
(***************************************************************************)
LayoutDone == pc = "layout_done"

\* what is left of the running loop: the distance from yy to the loop's bound
RuleDistance(yy) == RuleLoop.dir * (yy - RuleLoop.stop)

\* C27: rendering a module with line_style single_line terminates for every
\* module height and every configured line step, a step of 0 or a negative
\* step included: every ruled-line loop reaches its bound after finitely
\* many iterations, each iteration bringing yy nearer to the bound.
C27_EveryIterationNearsTheBound ==
    [][(pc = "rule" /\ pc' = "rule" /\ rule_band' = rule_band)
          => RuleLoop.dir * (rule_y' - RuleLoop.stop) < RuleDistance(rule_y)]_vars

\* the layout returns, whatever the line step
C27_SingleLineLayoutTerminates == <>LayoutDone

\* with a positive line step the layout returns
C27_PositiveStepTerminates == (SingleLineLoops.step > 0) => <>LayoutDone

\* when the layout returns, the Cornell module's loops have drawn the lines
\* of the module's grids
C27_LoopsDrawTheLayout ==
    (LayoutDone /\ inp.path = "cornell") =>
        canvas = GridLayout("single_line", inp.x, inp.y, inp.width, inp.height,
                            Get(inp.config, "theme_height_mm", 0) * MM_TO_POINTS,
                            Get(inp.config, "summary_height_mm", 0) * MM_TO_POINTS,
                            Scale(inp.width, Get(inp.config, "keyword_width_ratio", Ratio(3, 10))),
                            inp.config).canvas

\* a loop with a line step of 0 or less is still running after MaxLines lines
C27_LoopStillRunning ==
    /\ pc = "rule" /\ RuleContinues /\ Len(canvas) = MaxLines
    /\ SingleLineLoops.step <= 0

(***************************************************************************)
(* The matrix notebook (SpecMatrix)                                        *)
(***************************************************************************)
\* the grid primitives drawn for the cell of calls[k]
CellGrid(k) ==
    {canvas[i] : i \in {j \in calls[k].first..calls[k].last : canvas[j].role = "cell_grid"}}

\* C28: for every row and column the grid primitives drawn for a cell lie
\* inside that cell's own rectangle [x, x + width] x [y, y + height], the
\* rectangle its border is drawn around and its fill text is placed in; no
\* cell's grid is drawn in a neighbouring cell or in the page margin.
C28_CellGridInsideCell ==
    \A k \in DOMAIN calls :
        calls[k].role = "cell" =>
            \A p \in CellGrid(k) :
                CoordsInside(p, calls[k].x, calls[k].y + calls[k].height,
                             calls[k].width, calls[k].height)

\* where the grid of a cell is drawn: in the rectangle of the same size
\* below the cell, [x, x + width] x [y - height, y]
C28_CellGridBelowCell ==
    \A k \in DOMAIN calls :
        calls[k].role = "cell" =>
            \A p \in CellGrid(k) :
                CoordsInside(p, calls[k].x, calls[k].y, calls[k].width, calls[k].height)

\* the grid of a cell of the last row has a primitive in the bottom margin
C28_GridInBottomMargin ==
    \E k \in DOMAIN calls :
        /\ calls[k].role = "cell" /\ calls[k].row = Matrix(inp).rows - 1
        /\ \E p \in CellGrid(k) : p.y1 < Matrix(inp).margin

\* the cells loop is running or over
CellsStarted == pc \in {"cells", "done"} /\ Has(inp, "matrix")

\* config is special laid over defaults: special's value for each of its
\* keys, defaults' value for every other key
MergedOnto(config, special, defaults) ==
    /\ DOMAIN config = DOMAIN special \cup DOMAIN defaults
    /\ \A key \in DOMAIN special : config[key] = special[key]
    /\ \A key \in DOMAIN defaults \ DOMAIN special : config[key] = defaults[key]

\* C29: a special per-cell configuration is merged onto a copy of
\* cell_defaults for that (row, col) only: cell_defaults is unchanged after
\* all cells are rendered, every cell without a special entry is rendered
\* with exactly cell_defaults, and each of the rows * cols cells is rendered
\* exactly once.
C29_SpecialCellsMergedOntoCopy ==
    CellsStarted =>
        LET M == Matrix(inp)
        IN  /\ cell_defaults = M.cell_defaults
            /\ \A k \in DOMAIN calls :
                  LET cell == <<calls[k].row, calls[k].col>>
                  IN  IF cell \in DOMAIN M.cell_config_map
                      THEN MergedOnto(calls[k].config, M.cell_config_map[cell], M.cell_defaults)
                      ELSE calls[k].config = M.cell_defaults
            /\ pc = "done" =>
                  /\ Len(calls) = M.rows * M.cols
                  /\ \A row \in 0..(M.rows - 1), col \in 0..(M.cols - 1) :
                        Cardinality({k \in DOMAIN calls :
                                       calls[k].row = row /\ calls[k].col = col}) = 1

\* a matrix of four cells was rendered; one cell has a special configuration
\* that replaces a key of the defaults and adds another, the other cells
\* were rendered with the defaults
C29_Witness ==
    /\ pc = "done" /\ Has(inp, "matrix") /\ Len(calls) = 4
    /\ LET M == Matrix(inp)
       IN  /\ \E k \in DOMAIN calls :
                 LET cell == <<calls[k].row, calls[k].col>>
                 IN  /\ cell \in DOMAIN M.cell_config_map
                     /\ \E key \in DOMAIN M.cell_config_map[cell] \cap DOMAIN M.cell_defaults :
                           M.cell_config_map[cell][key] # M.cell_defaults[key]
                     /\ DOMAIN M.cell_config_map[cell] \ DOMAIN M.cell_defaults # {}
                     /\ DOMAIN M.cell_defaults \ DOMAIN M.cell_config_map[cell] # {}
                     /\ calls[k].config # M.cell_defaults
           /\ Cardinality({k \in DOMAIN calls : calls[k].config = M.cell_defaults}) = 3
           /\ cell_defaults = M.cell_defaults

(***************************************************************************)
(* The scripts started from the command line (SpecMain)                    *)
(***************************************************************************)
\* the script was started with no argument
StartedBare == pc = "main" /\ Len(inp.argv) < 2

\* the script started with no argument has ended
BareExit == pc = "exit" /\ Has(inp, "argv") /\ Len(inp["argv"]) < 2

\* C22: started with no command-line argument, the program prints a usage
\* message and exits with code 1 without reading any configuration, opening
\* any document or drawing anything: its one step prints the message and
\* exits, and nothing follows.
C22_NoArgumentPrintsUsage ==
    /\ [][StartedBare =>
            /\ pc' = "exit" /\ exit_code' = 1
            /\ stdout' = <<Usage(inp.script)>>
            /\ UNCHANGED <<y_pos, row_count, inp, canvas, calls, newPages, saved, doc, page_index, cell_index>>]_vars
    /\ [](BareExit =>
            /\ exit_code = 1 /\ stdout = <<Usage(inp["script"])>>
            /\ canvas = <<>> /\ calls = <<>> /\ doc = <<>> /\ newPages = 0 /\ saved = 0)
    /\ [][pc # "exit"]_vars

\* each script has printed its usage message and ended with status 1
C22_Witness == BareExit /\ exit_code = 1 /\ Len(stdout) = 1

C22_WitnessGenerated == pc = "exit" /\ exit_code = 0 /\ saved = 1 /\ stdout = <<"generated">>

(***************************************************************************)
(* The rows of the practice sheet (SpecSheet)                              *)
(***************************************************************************)
\* the lines of the rows drawn so far
RowLines == {canvas[i] : i \in {j \in DOMAIN canvas :
                                   canvas[j].role \in {"line1", "line2", "line3", "line4"}}}

RowsOver == pc \in {"titles", "sheet_done"}

\* C30: with the leftover height split equally between the top and bottom
\* margins, the row loop terminates with row_count = full_cells =
\* floor(content_height / cell_pitch); all four lines of every drawn row are
\* between the adjusted bottom margin and the adjusted top margin; no row is
\* drawn when less than one cell pitch fits.
C30_RowsFillBalancedContent ==
    /\ [](RowsOver =>
            /\ row_count = Sheet(inp).full_cells
            /\ Cardinality(RowLines) = 4 * Sheet(inp).full_cells)
    /\ [](\A p \in RowLines :
            /\ p.y1 >= Sheet(inp).bottom_margin
            /\ p.y1 <= Sheet(inp).A4_h_mm - Sheet(inp).top_margin)
    /\ []((Sheet(inp).content_height < Sheet(inp).cell_pitch) => RowLines = {})
    /\ <>(pc = "sheet_done")

\* the A4 sheet of a notebook type with a gap between its rows is finished:
\* several rows, the first on the adjusted top margin, the last line on the
\* adjusted bottom margin
C30_Witness ==
    /\ pc = "sheet_done" /\ inp.A4_h_mm = 210 /\ inp.intercell_gap > 0
    /\ row_count = Sheet(inp).full_cells /\ row_count >= 7
    /\ \E p \in RowLines : p.role = "line1" /\ p.y1 = Sheet(inp).A4_h_mm - Sheet(inp).top_margin
    /\ \E p \in RowLines : p.role = "line4" /\ p.y1 = Sheet(inp).bottom_margin + Sheet(inp).intercell_gap

\* a sheet on which less than one cell pitch fits is finished without a row
C30_WitnessNoRow ==
    /\ pc = "sheet_done" /\ Sheet(inp).content_height < Sheet(inp).cell_pitch
    /\ row_count = 0 /\ RowLines = {}

=============================================================================
